---- MODULE Spec2Model ----
(***************************************************************************)
(* Model of the API key pool and the key-rotating call dispatcher of       *)
(* src/services/geminiService.ts (the second, current implementation that  *)
(* starts at line 479), together with the key manager component            *)
(* (src/unnamed/part_006) and the places of src/App.tsx that feed the key  *)
(* list into the service.                                                   *)
(*                                                                         *)
(* Time is counted in units of five minutes, so SHORT_COOLDOWN_PERIOD is 1 *)
(* and KEY_COOLDOWN_PERIOD (24 hours) is 288.  An undefined timestamp is   *)
(* NoTime, an undefined lastError is NoError.                              *)
(*                                                                         *)
(* JavaScript object identity matters: makeGoogleApiCall keeps references  *)
(* to the key objects it found at its start, and initializeApiKeys builds  *)
(* a new array of new objects.  The model keeps the objects a dispatch     *)
(* still holds (dObjs) apart from the live pool once the pool has been     *)
(* replaced under it (dLive = FALSE).                                      *)
(***************************************************************************)
EXTENDS Integers, Sequences, FiniteSets, TLC

\* ---------------------------------------------------------------- bounds
MaxTicks == 1
MaxEdits == 1
MaxListEdits == 2
MaxChecks == 1
MaxDispatches == 2
MaxHealthChecks == 1
MaxUploads == 2        \* calls of handleUpload in a run of the workflow
MaxImages == 2         \* images in one upload
MaxFailures == 2       \* analysis and synthesis calls that fail in a run of the workflow
MaxResets == 1         \* calls of resetState in a run of the workflow

\* ------------------------------------------------------------- constants
KEY_COOLDOWN_PERIOD == 288
SHORT_COOLDOWN_PERIOD == 1
NoTime == 0
NoError == "undefined"
NetworkError == "Network request failed"
ConfigErrorMessage == "Model or endpoint not found."

KeyValues == {"K1", "K2"}

Statuses == {"active", "exhausted", "rate_limited", "invalid", "config_error", "unknown"}

VARIABLES
    now,          \* Date.now()
    left,         \* how many more clock advances, edits, dispatches and health checks the run has
    keyPool,      \* geminiService.ts: let keyPool: ApiKey[]
    settingsKeys, \* App.tsx: settings.apiKeys
    checks,       \* part_006: handleCheckKey calls awaiting checkApiKey
    dpc,          \* makeGoogleApiCall: "idle", "inflight" or "done"
    dOrder,       \* allKeysInOrder, as key values
    dLive,        \* TRUE while allKeysInOrder holds the objects of keyPool
    dObjs,        \* the objects of allKeysInOrder once they left keyPool
    dIdx,         \* position of the for loop in allKeysInOrder
    dUpd,         \* what keyToUpdate refers to during the await
    dAttempts,    \* key values a request was issued with, in order
    dResult,      \* how the dispatch ended
    dFailedKeys,  \* AllKeysFailedError.failedKeys
    dUsedKey,     \* the key that served the result
    hcPending,    \* healthCheckAllKeys: keys whose checkApiKey is in flight
    hcFromUI,     \* the health check was started by handleCheckAllKeys
    dMarkedBad,   \* history: the keys a dispatch has marked invalid or config_error and no
                  \* health check, reset or removal has touched since
    appState,               \* App.tsx: appState
    analysisCursor,         \* App.tsx: analysisCursor
    evolvingStorySummary,   \* App.tsx: evolvingStorySummary, as the images analysed into it
    allUploadedImages,      \* App.tsx: allUploadedImages
    calls,                  \* the analysis and synthesis calls in the order they were issued
    analysisProgress,       \* App.tsx: analysisProgress, its currentIndex and total
    uploads,                \* how many times handleUpload has run
    retryAction,            \* App.tsx: retryAction
    isQuotaErrorModalOpen,  \* App.tsx
    isConfigErrorModalOpen, \* App.tsx
    isSettingsOpen,         \* App.tsx
    failedKeys,             \* App.tsx: failedKeys
    configErrorSeen,        \* App.tsx: configErrorDetails.model is set
    scPc,                   \* performSelfCheck: "idle", "probing" or "done"
    scKey,                  \* performSelfCheck: firstAvailableKey
    scProbe,                \* performSelfCheck: what checkApiKey returned or threw
    scResult,               \* performSelfCheck: "return", or the error it threw
    videoGenState,          \* App.tsx: videoGenState
    vpc,                    \* handleGenerateVideo: "idle", or the await it is suspended at
    pollI,                  \* handleGenerateVideo: the loop variable i
    videoOp,                \* handleGenerateVideo: videoOp
    logged,                 \* the events handed to the logger, as what they show of the keys
    configOk,               \* the configured model and endpoint exist at the service
    jsonText,               \* parseSlidesFromJson: its argument
    parsePc,                \* parseSlidesFromJson: "idle" or "done"
    parsedSlides            \* parseSlidesFromJson: what it returned, or that it threw

\* the state of the analysis workflow of App.tsx
avars == <<appState, analysisCursor, evolvingStorySummary, allUploadedImages, calls, uploads,
           retryAction, isQuotaErrorModalOpen, isConfigErrorModalOpen, isSettingsOpen,
           failedKeys, configErrorSeen, analysisProgress>>

\* the state of a pre-flight check
scvars == <<scPc, scKey, scProbe, scResult>>

\* a call of parseSlidesFromJson
pvars == <<jsonText, parsePc, parsedSlides>>

\* the state of a video generation
vvars == <<videoGenState, vpc, pollI, videoOp>>

\* what no operation of the key pool, of the pre-flight check or of the analysis changes
xvars == <<vvars, logged, configOk, pvars>>

vars == <<now, left, keyPool, settingsKeys, checks, dpc, dOrder, dLive, dObjs,
          dIdx, dUpd, dAttempts, dResult, dFailedKeys, dUsedKey, hcPending, hcFromUI,
          dMarkedBad, avars, scvars, xvars>>

dvars == <<dpc, dOrder, dLive, dObjs, dIdx, dUpd, dAttempts, dResult, dFailedKeys, dUsedKey>>

\* ------------------------------------------------------------ ApiKey
ApiKey(v, st, rt, le, lc, pin) ==
    [value |-> v, status |-> st, resetTime |-> rt, lastError |-> le,
     lastChecked |-> lc, isPinned |-> pin]

Values(keys) == {keys[i].value : i \in 1..Len(keys)}

\* Array.prototype.find with a predicate on the value: index of the first match, 0 if none
FindIndex(keys, v) ==
    IF \E i \in 1..Len(keys) : keys[i].value = v
    THEN CHOOSE i \in 1..Len(keys) : keys[i].value = v /\ \A j \in 1..(i-1) : keys[j].value # v
    ELSE 0

\* new Map(pairs).get(v): the last pair with that key wins
MapGetIndex(keys, v) ==
    IF \E i \in 1..Len(keys) : keys[i].value = v
    THEN CHOOSE i \in 1..Len(keys) : keys[i].value = v /\ \A j \in (i+1)..Len(keys) : keys[j].value # v
    ELSE 0

Health(k) == <<k.status, k.resetTime, k.lastError, k.lastChecked>>

\* initializeApiKeys taking the keys as the settings hold them
initializeApiKeys_FromSettings(pool, keysFromSettings) == keysFromSettings

\* initializeApiKeys merging the live data by position instead of by value
initializeApiKeys_ByPosition(pool, keysFromSettings) ==
    [i \in 1..Len(keysFromSettings) |->
        IF i <= Len(pool)
        THEN [keysFromSettings[i] EXCEPT !.status = pool[i].status,
                                         !.lastChecked = pool[i].lastChecked,
                                         !.resetTime = pool[i].resetTime,
                                         !.lastError = pool[i].lastError]
        ELSE keysFromSettings[i]]

\* ------------------------------------------------------------ initializeApiKeys
initializeApiKeys(pool, keysFromSettings) ==
    [i \in 1..Len(keysFromSettings) |->
        LET keyFromSettings == keysFromSettings[i]
            li == MapGetIndex(pool, keyFromSettings.value)
        IN IF li # 0
           THEN [keyFromSettings EXCEPT !.status = pool[li].status,
                                        !.lastChecked = pool[li].lastChecked,
                                        !.resetTime = pool[li].resetTime,
                                        !.lastError = pool[li].lastError]
           ELSE keyFromSettings]

\* the fields of an ApiKey that may be undefined, and how the model writes undefined in them
OptionalFields == {"resetTime", "lastError", "lastChecked"}

Undefined(f) == IF f = "lastError" THEN NoError ELSE NoTime

\* JSON.stringify of a key: the fields that are undefined are left out
stringify(k) == [f \in {g \in DOMAIN k : g \notin OptionalFields \/ k[g] # Undefined(g)} |-> k[f]]

\* JSON.parse, and what reading a field of the parsed object gives: undefined for a field
\* the text does not have
parse(o) == [f \in DOMAIN o \cup OptionalFields |-> IF f \in DOMAIN o THEN o[f] ELSE Undefined(f)]

\* getKeyPoolState handing out the keys in the order a dispatch attempts them
getKeyPoolState_PinnedFirst(pool) ==
    SelectSeq(pool, LAMBDA k : k.isPinned) \o SelectSeq(pool, LAMBDA k : ~k.isPinned)

\* lines 1101-1103: JSON.parse(JSON.stringify(keyPool))
getKeyPoolState(pool) == [i \in 1..Len(pool) |-> parse(stringify(pool[i]))]

\* What a replacement of keyPool does to a dispatch that is awaiting a response:
\* its allKeysInOrder and keyToUpdate keep pointing at the old objects.
StaleObjs(pool) == IF dLive
                   THEN [v \in Values(pool) |-> pool[FindIndex(pool, v)]]
                   ELSE dObjs

Detach(pool) ==
    IF dpc = "inflight"
    THEN /\ dLive' = FALSE
         /\ dObjs' = StaleObjs(pool)
         /\ dUpd' = IF dUpd = "live" THEN (IF dLive THEN "keyState" ELSE "orphan") ELSE dUpd
         /\ UNCHANGED <<dpc, dOrder, dIdx, dAttempts, dResult, dFailedKeys, dUsedKey>>
    ELSE UNCHANGED dvars

\* App.tsx useEffect([settings.apiKeys, ..., appState]): every change of the key list
\* reaches the service through initializeApiKeys
onKeysChange(newKeys) ==
    /\ settingsKeys' = newKeys
    /\ keyPool' = initializeApiKeys(keyPool, newKeys)
    /\ Detach(keyPool)

\* ------------------------------------------------------------ the bounds of a run
\* makeGoogleApiCall has settled and its caller has not continued yet: the caller continues
\* in the same turn of the event loop, before any other handler runs
Settled == dpc = "done"

Use(kind) ==
    /\ ~Settled
    /\ left[kind] > 0
    /\ left' = [left EXCEPT ![kind] = @ - 1]

\* ------------------------------------------------------------ the clock
Tick ==
    /\ Use("ticks")
    /\ \E d \in {SHORT_COOLDOWN_PERIOD, KEY_COOLDOWN_PERIOD} : now' = now + d
    /\ UNCHANGED <<keyPool, settingsKeys, checks, hcPending, hcFromUI>>
    /\ UNCHANGED dvars

\* ------------------------------------------------------------ key manager (part_006)
RemoveAt(s, i) == [j \in 1..(Len(s) - 1) |-> IF j < i THEN s[j] ELSE s[j + 1]]

InsertAt(s, i, e) == [j \in 1..(Len(s) + 1) |-> IF j < i THEN s[j] ELSE IF j = i THEN e ELSE s[j - 1]]

\* handleCheckKey up to its await: the closure keeps the key list of the render it was created in
StartCheck(keyToCheck, keys) == checks' = checks \cup {[key |-> keyToCheck, keys |-> keys]}

handleAddKey(trimmedKey) ==
    /\ Use("listEdits")
    /\ ~(\E i \in 1..Len(settingsKeys) : settingsKeys[i].value = trimmedKey)
    /\ Cardinality(checks) < MaxChecks
    /\ onKeysChange(Append(settingsKeys, ApiKey(trimmedKey, "unknown", NoTime, NoError, NoTime, FALSE)))
    /\ StartCheck(trimmedKey, settingsKeys)
    /\ UNCHANGED <<now, hcPending, hcFromUI>>

handleRemoveKey(keyToRemove) ==
    /\ Use("edits")
    /\ keyToRemove \in Values(settingsKeys)
    /\ onKeysChange(SelectSeq(settingsKeys, LAMBDA k : k.value # keyToRemove))
    /\ UNCHANGED <<now, checks, hcPending, hcFromUI>>

\* handleTogglePin leaving the pin of the other keys as it is
handleTogglePin_KeepOthers(keyToPin) ==
    /\ Use("edits")
    /\ keyToPin \in Values(settingsKeys)
    /\ onKeysChange([i \in 1..Len(settingsKeys) |->
           [settingsKeys[i] EXCEPT !.isPinned =
               IF settingsKeys[i].value = keyToPin THEN ~settingsKeys[i].isPinned ELSE @]])
    /\ UNCHANGED <<now, checks, hcPending, hcFromUI>>

handleTogglePin(keyToPin) ==
    /\ Use("edits")
    /\ keyToPin \in Values(settingsKeys)
    /\ onKeysChange([i \in 1..Len(settingsKeys) |->
           [settingsKeys[i] EXCEPT !.isPinned =
               IF settingsKeys[i].value = keyToPin THEN ~settingsKeys[i].isPinned ELSE FALSE]])
    /\ UNCHANGED <<now, checks, hcPending, hcFromUI>>

\* handleDrop: dragKey and dragOverKey are 0-based array indexes
handleDrop(dragKey, dragOverKey) ==
    /\ Use("listEdits")
    /\ dragKey \in 0..(Len(settingsKeys) - 1)
    /\ dragOverKey \in 0..(Len(settingsKeys) - 1)
    /\ dragKey # dragOverKey
    /\ onKeysChange(InsertAt(RemoveAt(settingsKeys, dragKey + 1), dragOverKey + 1, settingsKeys[dragKey + 1]))
    /\ UNCHANGED <<now, checks, hcPending, hcFromUI>>

\* a forced reset that keeps the time of the last check
forceResetAllKeys_KeepChecked(pool) ==
    [i \in 1..Len(pool) |->
        [pool[i] EXCEPT !.status = "active", !.lastError = NoError, !.resetTime = NoTime]]

\* geminiService.ts lines 595-600: the pool after the forEach of forceResetAllKeys
forceResetAllKeys(pool) ==
    [i \in 1..Len(pool) |->
        [pool[i] EXCEPT !.status = "active", !.lastError = NoError,
                        !.resetTime = NoTime, !.lastChecked = NoTime]]

handleForceReset ==
    /\ Use("edits")
    /\ LET reset == forceResetAllKeys(keyPool)
           updatedKeys == getKeyPoolState(reset)
       IN /\ settingsKeys' = updatedKeys
          /\ keyPool' = initializeApiKeys(reset, updatedKeys)
          /\ Detach(reset)
    /\ UNCHANGED <<now, checks, hcPending, hcFromUI>>

\* The effect of App.tsx that calls initializeApiKeys also runs when appState, authState or
\* the voice settings change: the pool is rebuilt from an unchanged key list.
EffectRerun ==
    /\ Use("edits")
    /\ onKeysChange(settingsKeys)
    /\ UNCHANGED <<now, checks, hcPending, hcFromUI>>

\* ------------------------------------------------------------ responses of the remote service
HttpStatuses == {200, 400, 403, 404, 429, 500}

ErrorStatuses == {"undefined", "NOT_FOUND", "PERMISSION_DENIED", "RESOURCE_EXHAUSTED", "INTERNAL"}

Messages == {"undefined", "Quota exceeded", "API key not valid"}

\* fetch or response.json() rejected
Thrown == [kind |-> "throw"]

\* data carries no error object
Plain(h) == [kind |-> "response", http |-> h, hasError |-> FALSE,
             status |-> "undefined", message |-> "undefined", candidates |-> (h = 200)]

\* one response for each way makeGoogleApiCall treats a response
ServiceResponses ==
    {Thrown, Plain(200),
     [kind |-> "response", http |-> 404, hasError |-> TRUE, status |-> "NOT_FOUND",
      message |-> "undefined", candidates |-> FALSE],
     [kind |-> "response", http |-> 403, hasError |-> TRUE, status |-> "PERMISSION_DENIED",
      message |-> "undefined", candidates |-> FALSE],
     [kind |-> "response", http |-> 429, hasError |-> TRUE, status |-> "RESOURCE_EXHAUSTED",
      message |-> "Quota exceeded", candidates |-> FALSE],
     [kind |-> "response", http |-> 500, hasError |-> TRUE, status |-> "INTERNAL",
      message |-> "undefined", candidates |-> FALSE],
     Plain(400)}

\* one response for each way checkApiKey treats a response
ProbeResponses == {r \in ServiceResponses : r.kind = "throw" \/ r.http \in {200, 404, 403, 429}}

Responses ==
    {Thrown} \cup {Plain(h) : h \in HttpStatuses}
    \cup [kind : {"response"}, http : HttpStatuses, hasError : {TRUE},
          status : ErrorStatuses, message : Messages, candidates : {FALSE}]

ResponseOk(r) == r.http >= 200 /\ r.http < 300

\* (message as string).toLowerCase().includes(needle), for the messages of the model
LowerIncludes(message, needle) ==
    \/ message = "Quota exceeded" /\ needle = "quota"
    \/ message = "API key not valid" /\ needle = "api key not valid"

\* const { message = 'Unknown error', status } = data.error || {}
ErrorMessage(r) == IF r.hasError /\ r.message # "undefined" THEN r.message ELSE "Unknown error"

ErrorStatus(r) == IF r.hasError THEN r.status ELSE "undefined"

isQuota(r) == r.http = 429 \/ ErrorStatus(r) = "RESOURCE_EXHAUSTED" \/ LowerIncludes(ErrorMessage(r), "quota")

isInvalid(r) ==
    \/ LowerIncludes(ErrorMessage(r), "api key not valid")
    \/ LowerIncludes(ErrorMessage(r), "invalid_api_key")
    \/ r.http = 403
    \/ ErrorStatus(r) = "PERMISSION_DENIED"

isConfigError(r) == r.http = 404 \/ ErrorStatus(r) = "NOT_FOUND"

isServerError(r) == r.http >= 500 /\ r.http < 600

\* the classification with the quota rule tested before the invalid-key rule
MarkFailed_QuotaFirst(k, r, t) ==
    LET k1 == [k EXCEPT !.lastError = ErrorMessage(r)]
    IN IF isConfigError(r) THEN [k1 EXCEPT !.status = "config_error", !.resetTime = NoTime]
       ELSE IF isQuota(r) THEN [k1 EXCEPT !.status = "exhausted", !.resetTime = t + KEY_COOLDOWN_PERIOD]
       ELSE IF isInvalid(r) THEN [k1 EXCEPT !.status = "invalid", !.resetTime = NoTime]
       ELSE IF isServerError(r) THEN [k1 EXCEPT !.status = "rate_limited", !.resetTime = t + SHORT_COOLDOWN_PERIOD]
       ELSE [k1 EXCEPT !.status = "unknown", !.resetTime = NoTime]

\* makeGoogleApiCall, lines 721-740: what a failed response writes to keyToUpdate
MarkFailed(k, r, t) ==
    LET k1 == [k EXCEPT !.lastError = ErrorMessage(r)]
    IN IF isConfigError(r) THEN [k1 EXCEPT !.status = "config_error", !.resetTime = NoTime]
       ELSE IF isInvalid(r) THEN [k1 EXCEPT !.status = "invalid", !.resetTime = NoTime]
       ELSE IF isQuota(r) THEN [k1 EXCEPT !.status = "exhausted", !.resetTime = t + KEY_COOLDOWN_PERIOD]
       ELSE IF isServerError(r) THEN [k1 EXCEPT !.status = "rate_limited", !.resetTime = t + SHORT_COOLDOWN_PERIOD]
       ELSE [k1 EXCEPT !.status = "unknown", !.resetTime = NoTime]

\* lines 748-750
MarkSuccess(k) == [k EXCEPT !.status = "active", !.lastError = NoError, !.resetTime = NoTime]

\* lines 770-771: the catch branch leaves resetTime alone
MarkThrown(k) == [k EXCEPT !.status = "unknown", !.lastError = NetworkError]

\* getOrderedKeys without the pin: the keys in pool order
getOrderedKeys_PoolOrder(pool) == pool

\* getOrderedKeys with the pinned key after the others
getOrderedKeys_PinnedLast(pool) ==
    SelectSeq(pool, LAMBDA k : ~k.isPinned) \o SelectSeq(pool, LAMBDA k : k.isPinned)

\* ------------------------------------------------------------ makeGoogleApiCall
getOrderedKeys(pool) ==
    LET pinned == {i \in 1..Len(pool) : pool[i].isPinned}
        otherKeys == SelectSeq(pool, LAMBDA k : ~k.isPinned)
    IN IF pinned # {}
       THEN <<pool[CHOOSE i \in pinned : \A j \in pinned : i <= j]>> \o otherKeys
       ELSE otherKeys

\* the skip test without the cooldown
Skipped_NoCooldown(k, t) == k.status \in {"invalid", "config_error", "unknown"}

\* the skip test that keeps a cooled key out until something sets it active again
Skipped_UntilReactivated(k, t) ==
    \/ k.status \in {"invalid", "config_error", "unknown", "exhausted", "rate_limited"}
    \/ (k.resetTime # NoTime /\ k.resetTime > t)

\* lines 670-672 and 684-685: the keys the dispatch does not attempt
Skipped(k, t) ==
    \/ k.status \in {"invalid", "config_error", "unknown"}
    \/ (k.resetTime # NoTime /\ k.resetTime > t)

getAvailableKeys(allKeysInOrder, t) == SelectSeq(allKeysInOrder, LAMBDA k : ~Skipped(k, t))

\* the for loop: the next position at or after from whose key is not skipped, 0 when the loop ends
NextAttempt(objsInOrder, from, t) ==
    LET ok == {i \in from..Len(objsInOrder) : ~Skipped(objsInOrder[i], t)}
    IN IF ok = {} THEN 0 ELSE CHOOSE i \in ok : \A j \in ok : i <= j

\* the objects allKeysInOrder refers to
OrderObjs(order, live, pool, objs) ==
    [i \in 1..Len(order) |-> IF live THEN pool[FindIndex(pool, order[i])] ELSE objs[order[i]]]

\* makeGoogleApiCall returns or throws
EndDispatch(pool1, result, failed, usedKey, attempts) ==
    /\ dpc' = "done"
    /\ dResult' = result
    /\ dFailedKeys' = failed
    /\ dUsedKey' = usedKey
    /\ dAttempts' = attempts
    /\ dOrder' = <<>>
    /\ dLive' = TRUE
    /\ dObjs' = <<>>
    /\ dIdx' = 0
    /\ dUpd' = "none"
    /\ keyPool' = pool1
    /\ UNCHANGED settingsKeys

\* makeGoogleApiCall from its call to the first await (or to the throw before the loop)
DispatchStart ==
    /\ Use("dispatches")
    /\ dpc = "idle"
    /\ LET allKeysInOrder == getOrderedKeys(keyPool)
           keysAvailableAtStart == getAvailableKeys(allKeysInOrder, now)
           first == NextAttempt(allKeysInOrder, 1, now)
       IN IF (Len(keysAvailableAtStart) = 0 /\ Len(allKeysInOrder) > 0) \/ first = 0
          THEN EndDispatch(keyPool, "AllKeysFailedError", getKeyPoolState(keyPool), "none", <<>>)
          ELSE /\ dpc' = "inflight"
               /\ dOrder' = [i \in 1..Len(allKeysInOrder) |-> allKeysInOrder[i].value]
               /\ dLive' = TRUE
               /\ dObjs' = <<>>
               /\ dIdx' = first
               /\ dUpd' = "live"
               /\ dAttempts' = <<allKeysInOrder[first].value>>
               /\ dResult' = "none"
               /\ dFailedKeys' = <<>>
               /\ dUsedKey' = "none"
               /\ UNCHANGED <<keyPool, settingsKeys>>
    /\ UNCHANGED <<now, checks, hcPending, hcFromUI>>

Failed(r) == r.hasError \/ ~ResponseOk(r)

\* what the outcome r of the request writes to the object keyToUpdate
Mark(k, r, t) ==
    IF r.kind = "throw" THEN MarkThrown(k)
    ELSE IF Failed(r) THEN MarkFailed(k, r, t)
    ELSE MarkSuccess(k)

\* the outcome written to the first key of the pool
WriteKey_FirstKey(pool, currentKey, r, t) ==
    [pool EXCEPT ![1] = Mark(@, r, t)]

\* line 689 and the writes through keyToUpdate: the pool key with the value of the
\* attempted key takes the outcome
WriteKey(pool, currentKey, r, t) ==
    [pool EXCEPT ![FindIndex(pool, currentKey)] = Mark(@, r, t)]

\* makeGoogleApiCall from the resolution of a request to the next await or to its end
DispatchResponse(r) ==
    /\ dpc = "inflight"
    /\ LET currentKey == dOrder[dIdx]
           pool1 == IF dUpd = "live"
                    THEN WriteKey(keyPool, currentKey, r, now)
                    ELSE keyPool
           objs1 == IF dUpd = "keyState"
                    THEN [dObjs EXCEPT ![currentKey] = Mark(@, r, now)]
                    ELSE dObjs
           next == NextAttempt(OrderObjs(dOrder, dLive, pool1, objs1), dIdx + 1, now)
       IN IF dUpd = "none"
          THEN \* keyToUpdate is undefined: the write throws, and the catch block throws again
               EndDispatch(keyPool, "TypeError", <<>>, "none", dAttempts)
          ELSE IF r.kind = "response" /\ ~Failed(r)
          THEN EndDispatch(pool1, "result", <<>>, currentKey, dAttempts)
          ELSE IF r.kind = "response" /\ isConfigError(r)
          THEN EndDispatch(pool1, "ConfigError", <<>>, "none", dAttempts)
          ELSE IF next = 0
          THEN EndDispatch(pool1, "AllKeysFailedError", getKeyPoolState(pool1), "none", dAttempts)
          ELSE /\ keyPool' = pool1
               /\ dObjs' = objs1
               /\ dIdx' = next
               /\ dUpd' = IF FindIndex(pool1, dOrder[next]) # 0 THEN "live" ELSE "none"
               /\ dAttempts' = Append(dAttempts, dOrder[next])
               /\ UNCHANGED <<settingsKeys, dpc, dOrder, dLive, dResult, dFailedKeys, dUsedKey>>
    /\ UNCHANGED <<now, left, checks, hcPending, hcFromUI>>

\* The caller of makeGoogleApiCall continues.  The workflow handlers of App.tsx pass a
\* failure to handleError, which copies the failedKeys of an AllKeysFailedError into the
\* settings (lines 295-301); handleGenerateVideo (line 590) only shows the message.
CallerContinues(viaHandleError) ==
    /\ Settled
    /\ IF dResult = "AllKeysFailedError" /\ viaHandleError
       THEN /\ settingsKeys' = dFailedKeys
            /\ keyPool' = initializeApiKeys(keyPool, dFailedKeys)
       ELSE UNCHANGED <<settingsKeys, keyPool>>
    /\ dpc' = "idle"
    /\ dResult' = "none"
    /\ dFailedKeys' = <<>>
    /\ dUsedKey' = "none"
    /\ dAttempts' = <<>>
    /\ UNCHANGED <<dOrder, dLive, dObjs, dIdx, dUpd>>
    /\ UNCHANGED <<now, left, checks, hcPending, hcFromUI>>

\* ------------------------------------------------------------ checkApiKey
checkApiKey(r) ==
    IF r.kind = "throw" THEN "unknown"
    ELSE IF ResponseOk(r) /\ r.candidates THEN "active"
    ELSE IF r.hasError /\ isConfigError(r) THEN "ConfigError"
    ELSE IF r.hasError /\ isInvalid(r) THEN "invalid"
    ELSE IF r.hasError /\ isQuota(r) THEN "exhausted"
    ELSE "unknown"

\* ------------------------------------------------------------ healthCheckAllKeys
\* lines 624-643: what the outcome of one probe writes to the key found in the live pool
HealthMark(k, outcome, t) ==
    IF outcome = "ConfigError"
    THEN [k EXCEPT !.status = "unknown", !.lastError = ConfigErrorMessage]
    ELSE IF outcome = "exhausted"
    THEN [k EXCEPT !.status = outcome, !.lastChecked = t, !.resetTime = t + KEY_COOLDOWN_PERIOD]
    ELSE IF outcome = "active"
    THEN [k EXCEPT !.status = outcome, !.lastChecked = t, !.resetTime = NoTime, !.lastError = NoError]
    ELSE [k EXCEPT !.status = outcome, !.lastChecked = t, !.resetTime = NoTime]

\* a health check that probes one key after the other
HealthCheckStart_OneByOne ==
    /\ Use("healthChecks")
    /\ hcPending = {}
    /\ Len(keyPool) > 0
    /\ hcPending' = {keyPool[1].value}
    /\ hcFromUI' \in BOOLEAN
    /\ UNCHANGED <<now, keyPool, settingsKeys, checks>>
    /\ UNCHANGED dvars

\* started by the startup code of App.tsx (line 222) or by handleCheckAllKeys (part_006)
HealthCheckStart ==
    /\ Use("healthChecks")
    /\ hcPending = {}
    /\ Len(keyPool) > 0
    /\ hcPending' = Values(keyPool)
    /\ hcFromUI' \in BOOLEAN
    /\ UNCHANGED <<now, keyPool, settingsKeys, checks>>
    /\ UNCHANGED dvars

\* one probe resolves; the last one ends healthCheckAllKeys, and handleCheckAllKeys then
\* hands getKeyPoolState() to onKeysChange
HealthCheckProbe(v, r) ==
    /\ ~Settled
    /\ v \in hcPending
    /\ hcPending' = hcPending \ {v}
    /\ LET i == FindIndex(keyPool, v)
           pool1 == IF i # 0
                    THEN [keyPool EXCEPT ![i] = HealthMark(@, checkApiKey(r), now)]
                    ELSE keyPool
       IN IF hcPending' = {} /\ hcFromUI
          THEN /\ settingsKeys' = getKeyPoolState(pool1)
               /\ keyPool' = initializeApiKeys(pool1, getKeyPoolState(pool1))
               /\ Detach(pool1)
          ELSE /\ keyPool' = pool1
               /\ UNCHANGED settingsKeys
               /\ UNCHANGED dvars
    /\ UNCHANGED <<now, left, checks, hcFromUI>>

\* ------------------------------------------------------------ handleCheckKey
\* lines 90-100: the list handed to onKeysChange is built from the closure's keys
CheckedKeys(keys, keyToCheck, outcome, t) ==
    [i \in 1..Len(keys) |->
        IF keys[i].value # keyToCheck THEN keys[i]
        ELSE IF outcome = "ConfigError"
        THEN [keys[i] EXCEPT !.status = "config_error", !.lastChecked = t,
                             !.lastError = ConfigErrorMessage]
        ELSE [keys[i] EXCEPT !.status = outcome, !.lastChecked = t,
                             !.resetTime = NoTime, !.lastError = NoError]]

\* the check button of a key
handleCheckKey(keyToCheck) ==
    /\ Use("listEdits")
    /\ keyToCheck \in Values(settingsKeys)
    /\ Cardinality(checks) < MaxChecks
    /\ StartCheck(keyToCheck, settingsKeys)
    /\ UNCHANGED <<now, keyPool, settingsKeys, hcPending, hcFromUI>>
    /\ UNCHANGED dvars

\* checkApiKey resolves and handleCheckKey continues
CheckDone(c, r) ==
    /\ ~Settled
    /\ c \in checks
    /\ checks' = checks \ {c}
    /\ onKeysChange(CheckedKeys(c.keys, c.key, checkApiKey(r), now))
    /\ UNCHANGED <<now, left, hcPending, hcFromUI>>

\* ------------------------------------------------------------ history of the marks
\* lines 723-729: the dispatch writes invalid or config_error through keyToUpdate, unless
\* keyToUpdate is undefined and the write throws
NoteMark(r) ==
    dMarkedBad' =
        IF /\ dUpd # "none"
           /\ Mark(ApiKey(dOrder[dIdx], "active", NoTime, NoError, NoTime, FALSE), r, now).status \in {"invalid", "config_error"}
        THEN dMarkedBad \cup {dOrder[dIdx]}
        ELSE dMarkedBad

\* a health check, a forced reset or the removal of the keys vs: their marks are history
Touched(vs) == dMarkedBad' = dMarkedBad \ vs

\* ------------------------------------------------------------ the workflow at rest
\* App.tsx lines 61-82: the initial state of the component; no pre-flight check is running
NoOperation == [done |-> FALSE, uri |-> FALSE]

\* the empty string as the text of a response
EmptyText ==
    [raw |-> "''", json |-> [kind |-> "invalid", items |-> <<>>], sections |-> <<>>]

NotParsed == [threw |-> FALSE, slides |-> <<>>]

IdleCursor == [imagesToAnalyze |-> <<>>, currentIndex |-> 0, status |-> "idle"]

\* App.tsx lines 96 and 355
NoProgress == [currentIndex |-> 0, total |-> 0]

WorkflowIdle ==
    /\ appState = "concept"
    /\ analysisCursor = IdleCursor
    /\ evolvingStorySummary = <<>>
    /\ allUploadedImages = <<>>
    /\ calls = <<>>
    /\ analysisProgress = NoProgress
    /\ uploads = 0
    /\ retryAction = "null"
    /\ isQuotaErrorModalOpen = FALSE
    /\ isConfigErrorModalOpen = FALSE
    /\ isSettingsOpen = FALSE
    /\ failedKeys = <<>>
    /\ configErrorSeen = FALSE
    /\ scPc = "idle"
    /\ scKey = "none"
    /\ scProbe = "none"
    /\ scResult = "none"
    /\ videoGenState = "idle"
    /\ vpc = "idle"
    /\ pollI = 0
    /\ videoOp = NoOperation
    /\ logged = {}
    /\ jsonText = EmptyText
    /\ parsePc = "idle"
    /\ parsedSlides = NotParsed

\* ------------------------------------------------------------ specification
\* The key lists a session can start from (App.tsx loadLocalSettings): no key, or keys
\* stored after a force reset, at most one of them pinned.
StoredKey(v, pin) == ApiKey(v, "active", NoTime, NoError, NoTime, pin)

\* The runs that are explored.  Calls, health checks and edits of the key list all run
\* concurrently, so a run is bounded in each of them:
\*   - key rotation over time: dispatches, clock advances and edits that replace the pool
\*     (remove, pin, force reset, the re-run of the effect);
\*   - a dispatch racing with a health check and with such edits;
\*   - the key manager: all its edits and checks, with a dispatch and a health check.
Runs ==
    {[ticks |-> MaxTicks, edits |-> MaxEdits, listEdits |-> 0,
      dispatches |-> MaxDispatches, healthChecks |-> 0],
     [ticks |-> 0, edits |-> MaxEdits, listEdits |-> 0,
      dispatches |-> 1, healthChecks |-> MaxHealthChecks],
     [ticks |-> 0, edits |-> MaxEdits, listEdits |-> MaxListEdits,
      dispatches |-> 1, healthChecks |-> 0]}

StoredKeyLists ==
    {<<>>, <<StoredKey("K1", FALSE)>>, <<StoredKey("K1", FALSE), StoredKey("K2", FALSE)>>,
     <<StoredKey("K1", FALSE), StoredKey("K2", TRUE)>>}

Init ==
    /\ now = 1
    /\ left \in Runs
    /\ settingsKeys \in StoredKeyLists
    /\ keyPool = initializeApiKeys(<<>>, settingsKeys)
    /\ checks = {}
    /\ dpc = "idle"
    /\ dOrder = <<>>
    /\ dLive = TRUE
    /\ dObjs = <<>>
    /\ dIdx = 0
    /\ dUpd = "none"
    /\ dAttempts = <<>>
    /\ dResult = "none"
    /\ dFailedKeys = <<>>
    /\ dUsedKey = "none"
    /\ hcPending = {}
    /\ hcFromUI = FALSE
    /\ dMarkedBad = {}
    /\ configOk = TRUE
    /\ WorkflowIdle

Next ==
    \/ Tick /\ UNCHANGED <<dMarkedBad, avars, scvars, xvars>>
    \/ \E v \in KeyValues : handleAddKey(v) /\ UNCHANGED <<dMarkedBad, avars, scvars, xvars>>
    \/ \E v \in KeyValues : handleRemoveKey(v) /\ Touched({v}) /\ UNCHANGED <<avars, scvars, xvars>>
    \/ \E v \in KeyValues : handleTogglePin(v) /\ UNCHANGED <<dMarkedBad, avars, scvars, xvars>>
    \/ \E i, j \in 0..(Cardinality(KeyValues) - 1) :
          handleDrop(i, j) /\ UNCHANGED <<dMarkedBad, avars, scvars, xvars>>
    \/ handleForceReset /\ Touched(KeyValues) /\ UNCHANGED <<avars, scvars, xvars>>
    \/ EffectRerun /\ UNCHANGED <<dMarkedBad, avars, scvars, xvars>>
    \/ \E v \in KeyValues : handleCheckKey(v) /\ UNCHANGED <<dMarkedBad, avars, scvars, xvars>>
    \/ \E c \in checks, r \in ProbeResponses :
          CheckDone(c, r) /\ Touched({c.key}) /\ UNCHANGED <<avars, scvars, xvars>>
    \/ DispatchStart /\ UNCHANGED <<dMarkedBad, avars, scvars, xvars>>
    \/ \E r \in ServiceResponses : DispatchResponse(r) /\ NoteMark(r) /\ UNCHANGED <<avars, scvars, xvars>>
    \/ \E h \in BOOLEAN : CallerContinues(h) /\ UNCHANGED <<dMarkedBad, avars, scvars, xvars>>
    \/ HealthCheckStart /\ UNCHANGED <<dMarkedBad, avars, scvars, xvars>>
    \/ \E v \in KeyValues, r \in ProbeResponses :
          HealthCheckProbe(v, r) /\ Touched({v}) /\ UNCHANGED <<avars, scvars, xvars>>

Spec == Init /\ [][Next]_vars

\* ------------------------------------------------------------ performSelfCheck
\* line 785: the position of the first key that is neither invalid nor config_error nor
\* cooling down, 0 when there is none
firstAvailableKey(pool, t) ==
    LET ok == {i \in 1..Len(pool) :
                 /\ pool[i].status # "invalid"
                 /\ pool[i].status # "config_error"
                 /\ (pool[i].resetTime = NoTime \/ pool[i].resetTime <= t)}
    IN IF ok = {} THEN 0 ELSE CHOOSE i \in ok : \A j \in ok : i <= j

\* the catch block that rethrows whatever the probe did not report as active
selfCheckOutcome_Strict(outcome) ==
    IF outcome = "active" THEN "return"
    ELSE IF outcome = "ConfigError" THEN "ConfigError"
    ELSE "AllKeysFailedError"

\* lines 792-801: how performSelfCheck ends after checkApiKey returned or threw outcome
selfCheckOutcome(outcome) ==
    IF outcome = "ConfigError" THEN "ConfigError" ELSE "return"

\* performSelfCheck up to its await, or to its end when there is no key to probe
performSelfCheck ==
    /\ scPc = "idle"
    /\ LET i == firstAvailableKey(keyPool, now)
       IN IF i = 0
          THEN /\ scPc' = "done"
               /\ scResult' = IF Len(keyPool) > 0 THEN "AllKeysFailedError" ELSE "return"
               /\ UNCHANGED scKey
          ELSE /\ scPc' = "probing"
               /\ scKey' = keyPool[i].value
               /\ UNCHANGED scResult
    /\ UNCHANGED scProbe
    /\ UNCHANGED <<now, left, keyPool, settingsKeys, checks, hcPending, hcFromUI, dMarkedBad>>
    /\ UNCHANGED dvars
    /\ UNCHANGED avars

\* the probe of performSelfCheck resolves with r
SelfCheckProbe(r) ==
    /\ scPc = "probing"
    /\ scProbe' = checkApiKey(r)
    /\ scResult' = selfCheckOutcome(checkApiKey(r))
    /\ scPc' = "done"
    /\ UNCHANGED scKey
    /\ UNCHANGED <<now, left, keyPool, settingsKeys, checks, hcPending, hcFromUI, dMarkedBad>>
    /\ UNCHANGED dvars
    /\ UNCHANGED avars

\* the states a key can be left in by the dispatches of a session that is now at time t:
\* stored, marked by a response at the start of the session or just now, and then hit by
\* a network failure
KeyStates(v, t) ==
    LET marked == {StoredKey(v, FALSE)}
                  \cup {Mark(StoredKey(v, FALSE), r, u) : r \in ServiceResponses, u \in {1, t}}
    IN marked \cup {MarkThrown(k) : k \in marked}

SelfCheckPools(t) ==
    {<<>>} \cup {<<k>> : k \in KeyStates("K1", t)}
    \cup {<<k1, k2>> : k1 \in KeyStates("K1", t), k2 \in KeyStates("K2", t)}

\* a pre-flight check on a pool in any of these states, a cooldown period into the session
InitSelfCheck ==
    /\ now = 1 + KEY_COOLDOWN_PERIOD
    /\ left = [ticks |-> 0, edits |-> 0, listEdits |-> 0, dispatches |-> 0, healthChecks |-> 0]
    /\ keyPool \in SelfCheckPools(now)
    /\ settingsKeys = getKeyPoolState(keyPool)
    /\ checks = {}
    /\ dpc = "idle"
    /\ dOrder = <<>>
    /\ dLive = TRUE
    /\ dObjs = <<>>
    /\ dIdx = 0
    /\ dUpd = "none"
    /\ dAttempts = <<>>
    /\ dResult = "none"
    /\ dFailedKeys = <<>>
    /\ dUsedKey = "none"
    /\ hcPending = {}
    /\ hcFromUI = FALSE
    /\ dMarkedBad = {}
    /\ configOk = TRUE
    /\ WorkflowIdle

NextSelfCheck ==
    \/ performSelfCheck /\ UNCHANGED xvars
    \/ \E r \in Responses : SelfCheckProbe(r) /\ UNCHANGED xvars

SpecSelfCheck == InitSelfCheck /\ [][NextSelfCheck]_vars

\* ------------------------------------------------------------ the analysis workflow (App.tsx)
\* State updates made in one continuation are applied together, and the effects run once
\* after them (automatic batching).

\* the images of the upload with number run
UploadedImages(run, n) == [i \in 1..n |-> [id |-> <<run, i>>, description |-> FALSE]]

\* allUploadedImagesRef.current.filter(img => img.description), as the set of their ids
Described(images) == {images[i].id : i \in {j \in 1..Len(images) : images[j].description}}

NoImage == <<0, 0>>

\* lines 439-443: the call the effect issues for the cursor, with what its closure captured
NewCall(cursor, story, images, run) ==
    IF cursor.currentIndex >= Len(cursor.imagesToAnalyze)
    THEN [kind |-> "synthesis", image |-> NoImage, index |-> cursor.currentIndex,
          n |-> Len(cursor.imagesToAnalyze), story |-> story, analyzed |-> Described(images),
          run |-> run, outcome |-> "pending"]
    ELSE [kind |-> "analysis", image |-> cursor.imagesToAnalyze[cursor.currentIndex + 1].id,
          index |-> cursor.currentIndex, n |-> Len(cursor.imagesToAnalyze), story |-> story,
          analyzed |-> Described(images), run |-> run, outcome |-> "pending"]

\* lines 410 and 427: what the call the effect issues does to the progress prog before
\* its await
Issued(prog, cursor) ==
    IF cursor.currentIndex >= Len(cursor.imagesToAnalyze)
    THEN [prog EXCEPT !.currentIndex = prog.total]
    ELSE [prog EXCEPT !.currentIndex = @ + 1]

\* lines 403-445: the state updates of a continuation are committed, and the effect runs
\* when one of analysisCursor, appState and evolvingStorySummary has changed; it issues a
\* call when the cursor is running and the application is analyzing.  log is the call
\* log with the outcome of the continuation's own call, run the number of the last upload,
\* prog the progress the continuation has set.
Commit(app, cursor, cursorSet, story, images, log, run, prog) ==
    LET runs == /\ cursorSet \/ app # appState \/ story # evolvingStorySummary
                /\ cursor.status = "running"
                /\ app = "analyzing"
    IN /\ appState' = app
       /\ analysisCursor' = cursor
       /\ evolvingStorySummary' = story
       /\ allUploadedImages' = images
       /\ calls' = IF runs THEN Append(log, NewCall(cursor, story, images, run)) ELSE log
       /\ analysisProgress' = IF runs THEN Issued(prog, cursor) ELSE prog

PoolAtRest == UNCHANGED <<now, keyPool, settingsKeys, checks, hcPending, hcFromUI, dMarkedBad>>
                 /\ UNCHANGED dvars /\ UNCHANGED scvars /\ UNCHANGED xvars

\* lines 365-375, when createInitialPlan returns
handleConceptSubmit ==
    /\ appState = "concept"
    /\ Commit("upload", analysisCursor, FALSE, evolvingStorySummary, allUploadedImages, calls, uploads,
              analysisProgress)
    /\ UNCHANGED <<left, uploads, retryAction, isQuotaErrorModalOpen, isConfigErrorModalOpen,
                   isSettingsOpen, failedKeys, configErrorSeen>>
    /\ PoolAtRest

\* lines 377-396: handleUpload with n images, and the startAnalysis it calls
handleUpload(n) ==
    /\ appState = "upload"
    /\ Use("uploads")
    /\ uploads' = uploads + 1
    /\ LET images == UploadedImages(uploads + 1, n)
       IN Commit("analyzing",
                 [imagesToAnalyze |-> images, currentIndex |-> 0, status |-> "running"],
                 TRUE, <<>>, allUploadedImages \o images, calls, uploads + 1,
                 [currentIndex |-> 0, total |-> n + 1])
    /\ UNCHANGED <<retryAction, isQuotaErrorModalOpen, isConfigErrorModalOpen,
                   isSettingsOpen, failedKeys, configErrorSeen>>
    /\ PoolAtRest

InFlight == {j \in 1..Len(calls) : calls[j].outcome = "pending"}

Settle(j, outcome) == [calls EXCEPT ![j].outcome = outcome]

\* lines 410-414: analyzeNextFrame returns to the continuation of call j
AnalyzeReturns(j) ==
    /\ j \in InFlight
    /\ calls[j].kind = "analysis"
    /\ Commit(appState,
              [analysisCursor EXCEPT !.currentIndex = @ + 1],
              TRUE,
              Append(calls[j].story, calls[j].image),
              [i \in 1..Len(allUploadedImages) |->
                  IF allUploadedImages[i].id = calls[j].image
                  THEN [allUploadedImages[i] EXCEPT !.description = TRUE]
                  ELSE allUploadedImages[i]],
              Settle(j, "result"), uploads, analysisProgress)
    /\ UNCHANGED <<left, uploads, retryAction, isQuotaErrorModalOpen, isConfigErrorModalOpen,
                   isSettingsOpen, failedKeys, configErrorSeen>>
    /\ PoolAtRest

\* lines 429-433: generateStoryboard returns to the continuation of call j
SynthesisReturns(j) ==
    /\ j \in InFlight
    /\ calls[j].kind = "synthesis"
    /\ Commit("chat", [imagesToAnalyze |-> <<>>, currentIndex |-> 0, status |-> "done"], TRUE,
              evolvingStorySummary, allUploadedImages, Settle(j, "result"), uploads,
              analysisProgress)
    /\ UNCHANGED <<left, uploads, retryAction, isQuotaErrorModalOpen, isConfigErrorModalOpen,
                   isSettingsOpen, failedKeys, configErrorSeen>>
    /\ PoolAtRest

\* what analyzeNextFrame and generateStoryboard throw: the errors of performSelfCheck and
\* makeGoogleApiCall, and any other error (analyzeNextFrame for an answer that does not
\* parse, either of them for the TypeError of a dispatch whose keyToUpdate is undefined)
CallErrors == {"AllKeysFailedError", "ConfigError", "Error"}

\* lines 415-418 and 434-437: the call j throws e; the cursor is paused and handleError
\* (lines 285-312) takes the error with the retry action of the call
CallThrows(j, e) ==
    /\ j \in InFlight
    /\ Use("failures")
    /\ Commit(IF e = "Error" THEN "error" ELSE appState,
              [analysisCursor EXCEPT !.status = "paused"], TRUE,
              evolvingStorySummary, allUploadedImages, Settle(j, e), uploads, analysisProgress)
    /\ retryAction' = IF calls[j].kind = "analysis" THEN "resumeAnalysis" ELSE "retrySynth"
    /\ isConfigErrorModalOpen' = IF e = "ConfigError" THEN TRUE ELSE isConfigErrorModalOpen
    /\ configErrorSeen' = IF e = "ConfigError" THEN TRUE ELSE configErrorSeen
    /\ isQuotaErrorModalOpen' = IF e = "AllKeysFailedError" THEN TRUE ELSE isQuotaErrorModalOpen
    /\ failedKeys' = IF e = "AllKeysFailedError" THEN getKeyPoolState(keyPool) ELSE failedKeys
    /\ IF e = "AllKeysFailedError"
       THEN onKeysChange(getKeyPoolState(keyPool))
       ELSE UNCHANGED <<keyPool, settingsKeys>> /\ UNCHANGED dvars
    /\ UNCHANGED <<now, checks, hcPending, hcFromUI, dMarkedBad, uploads, isSettingsOpen>>
    /\ UNCHANGED scvars
    /\ UNCHANGED xvars

\* resumeAnalysis (lines 398-401) and retrySynth (lines 422-425): the cursor runs again
Resumed == [analysisCursor EXCEPT !.status = "running"]

\* the retry button of QuotaErrorModal (lines 636-643)
QuotaRetry ==
    /\ isQuotaErrorModalOpen
    /\ retryAction # "null"
    /\ isQuotaErrorModalOpen' = FALSE
    /\ retryAction' = "null"
    /\ Commit(appState, Resumed, TRUE, evolvingStorySummary, allUploadedImages, calls, uploads,
              analysisProgress)
    /\ UNCHANGED <<left, uploads, isConfigErrorModalOpen, isSettingsOpen, failedKeys, configErrorSeen>>
    /\ PoolAtRest

\* the retry button of ErrorState (line 628, part_003)
ErrorStateRetry ==
    /\ appState = "error"
    /\ retryAction # "null"
    /\ Commit(appState, Resumed, TRUE, evolvingStorySummary, allUploadedImages, calls, uploads,
              analysisProgress)
    /\ UNCHANGED <<left, uploads, retryAction, isQuotaErrorModalOpen, isConfigErrorModalOpen,
                   isSettingsOpen, failedKeys, configErrorSeen>>
    /\ PoolAtRest

\* onClose of QuotaErrorModal (lines 648-651) and of ConfigErrorModal (lines 661-664)
ModalClose ==
    /\ isQuotaErrorModalOpen \/ isConfigErrorModalOpen
    /\ \/ isQuotaErrorModalOpen /\ isQuotaErrorModalOpen' = FALSE /\ UNCHANGED isConfigErrorModalOpen
       \/ isConfigErrorModalOpen /\ isConfigErrorModalOpen' = FALSE /\ UNCHANGED isQuotaErrorModalOpen
    /\ retryAction' = "null"
    /\ UNCHANGED <<appState, analysisCursor, evolvingStorySummary, allUploadedImages, calls,
                   analysisProgress,
                   uploads, isSettingsOpen, failedKeys, configErrorSeen, left>>
    /\ PoolAtRest

\* onOpenSettings of QuotaErrorModal (lines 644-647) and of ConfigErrorModal (lines 657-660)
ModalOpenSettings ==
    /\ isQuotaErrorModalOpen \/ isConfigErrorModalOpen
    /\ \/ isQuotaErrorModalOpen /\ isQuotaErrorModalOpen' = FALSE /\ UNCHANGED isConfigErrorModalOpen
       \/ isConfigErrorModalOpen /\ isConfigErrorModalOpen' = FALSE /\ UNCHANGED isQuotaErrorModalOpen
    /\ isSettingsOpen' = TRUE
    /\ UNCHANGED <<appState, analysisCursor, evolvingStorySummary, allUploadedImages, calls,
                   analysisProgress,
                   uploads, retryAction, failedKeys, configErrorSeen, left>>
    /\ PoolAtRest

\* onClose of SettingsPanel (lines 669-675)
SettingsClose ==
    /\ isSettingsOpen
    /\ isSettingsOpen' = FALSE
    /\ LET reopen == retryAction # "null" /\ ~isQuotaErrorModalOpen /\ ~isConfigErrorModalOpen
       IN /\ isQuotaErrorModalOpen' = IF reopen /\ Len(failedKeys) > 0 THEN TRUE
                                      ELSE isQuotaErrorModalOpen
          /\ isConfigErrorModalOpen' = IF reopen /\ Len(failedKeys) = 0 /\ configErrorSeen THEN TRUE
                                       ELSE isConfigErrorModalOpen
    /\ UNCHANGED <<appState, analysisCursor, evolvingStorySummary, allUploadedImages, calls,
                   analysisProgress,
                   uploads, retryAction, failedKeys, configErrorSeen, left>>
    /\ PoolAtRest

\* lines 348-363: the restart button of the header; the calls in flight are not cancelled
resetState ==
    /\ Use("resets")
    /\ Commit("concept", IdleCursor, TRUE, <<>>, <<>>, calls, uploads, NoProgress)
    /\ retryAction' = "null"
    /\ isQuotaErrorModalOpen' = FALSE
    /\ isConfigErrorModalOpen' = FALSE
    /\ UNCHANGED <<uploads, isSettingsOpen, failedKeys, configErrorSeen>>
    /\ PoolAtRest

\* a session with the workflow at rest and a stored key list
InitAnalysis ==
    /\ now = 1
    /\ left = [uploads |-> MaxUploads, failures |-> MaxFailures, resets |-> MaxResets]
    /\ settingsKeys \in {<<>>, <<StoredKey("K1", FALSE)>>}
    /\ keyPool = initializeApiKeys(<<>>, settingsKeys)
    /\ checks = {}
    /\ dpc = "idle"
    /\ dOrder = <<>>
    /\ dLive = TRUE
    /\ dObjs = <<>>
    /\ dIdx = 0
    /\ dUpd = "none"
    /\ dAttempts = <<>>
    /\ dResult = "none"
    /\ dFailedKeys = <<>>
    /\ dUsedKey = "none"
    /\ hcPending = {}
    /\ hcFromUI = FALSE
    /\ dMarkedBad = {}
    /\ configOk = TRUE
    /\ WorkflowIdle

NextAnalysis ==
    \/ handleConceptSubmit
    \/ \E n \in 1..MaxImages : handleUpload(n)
    \/ \E j \in 1..Len(calls) : AnalyzeReturns(j)
    \/ \E j \in 1..Len(calls) : SynthesisReturns(j)
    \/ \E j \in 1..Len(calls), e \in CallErrors : CallThrows(j, e)
    \/ QuotaRetry
    \/ ErrorStateRetry
    \/ ModalClose
    \/ ModalOpenSettings
    \/ SettingsClose
    \/ resetState

SpecAnalysis == InitAnalysis /\ [][NextAnalysis]_vars

\* ------------------------------------------------------------ steps of a dispatch
\* makeGoogleApiCall is called
DispatchStartStep == dpc = "idle" /\ dpc' # "idle"

\* a request of the dispatch resolves and makeGoogleApiCall runs on
DispatchResponseStep == dpc = "inflight" /\ (dpc' = "done" \/ dAttempts' # dAttempts)

\* a request is issued in this step, with the key LastAttempt'
RequestIssued == dpc' = "inflight" /\ dAttempts' # dAttempts

LastAttempt == dAttempts[Len(dAttempts)]

Pinned(keys) == {i \in 1..Len(keys) : keys[i].isPinned}

\* the key with value v of a key list that holds it
KeyOf(keys, v) == keys[FindIndex(keys, v)]

\* eligibleNow of the specification: not permanently bad and not cooling down
EligibleNow(k, t) ==
    /\ k.status \notin {"invalid", "config_error"}
    /\ ~(k.resetTime # NoTime /\ k.resetTime > t)

\* ------------------------------------------------------------ C1
\* C1: whenever makeGoogleApiCall issues a request, the key it uses is, at that moment,
\* neither invalid nor config_error in the key pool, and its resetTime is not in the future.
C1_RequestOnlyWithEligibleKey ==
    [][RequestIssued =>
          (LastAttempt' \in Values(keyPool') => EligibleNow(KeyOf(keyPool', LastAttempt'), now'))]_vars

\* ------------------------------------------------------------ C2
\* C2: a dispatch that starts on a non-empty pool without an eligible key issues no request
\* and fails with AllKeysFailedError, whose failedKeys are the whole pool, and changes no key.
C2_NoEligibleKeyFailsAtOnce ==
    [][(DispatchStartStep /\ Len(keyPool) > 0
            /\ \A i \in 1..Len(keyPool) : ~EligibleNow(keyPool[i], now))
        => /\ dpc' = "done"
           /\ dResult' = "AllKeysFailedError"
           /\ dAttempts' = <<>>
           /\ dFailedKeys' = keyPool
           /\ keyPool' = keyPool]_vars

\* a dispatch has failed without a request although the pool holds a key
C2_Witness ==
    /\ Settled
    /\ dResult = "AllKeysFailedError"
    /\ dAttempts = <<>>
    /\ Len(keyPool) > 0
    /\ dFailedKeys = keyPool
    /\ \A i \in 1..Len(keyPool) : ~EligibleNow(keyPool[i], now)

\* ------------------------------------------------------------ C3
\* C3: when a request of a dispatch gets a not-found response, the key of that request
\* becomes config_error in the pool, the dispatch fails with ConfigError and no further
\* key is attempted.
C3_NotFoundAbortsDispatch ==
    [][\A r \in ServiceResponses :
          (r.kind = "response" /\ isConfigError(r) /\ dpc = "inflight" /\ DispatchResponse(r))
          => /\ dResult' = "ConfigError"
             /\ dAttempts' = dAttempts
             /\ (LastAttempt \in Values(keyPool')
                    => KeyOf(keyPool', LastAttempt).status = "config_error")]_vars

\* ------------------------------------------------------------ C4
\* C4: when makeGoogleApiCall returns a result, the key that served it is active in the live
\* pool, without resetTime and without lastError.
C4_ServingKeyIsActive ==
    (Settled /\ dResult = "result" /\ dUsedKey \in Values(keyPool))
    => /\ KeyOf(keyPool, dUsedKey).status = "active"
       /\ KeyOf(keyPool, dUsedKey).resetTime = NoTime
       /\ KeyOf(keyPool, dUsedKey).lastError = NoError

\* ------------------------------------------------------------ C5
\* C5: a step of a dispatch changes no pool key other than the key whose request has just
\* resolved; so the keys it skips and the keys after the serving key stay as they are.
C5_OtherKeysUntouched ==
    [][(DispatchStartStep \/ DispatchResponseStep)
        => /\ Len(keyPool') = Len(keyPool)
           /\ \A i \in 1..Len(keyPool) :
                 (DispatchStartStep \/ keyPool[i].value # LastAttempt) => keyPool'[i] = keyPool[i]]_vars

\* the scenario of the specification: K1 is exhausted and cooling down, K2 has served the
\* request, and K1 is as the earlier dispatch left it
C5_Witness ==
    /\ Settled
    /\ dResult = "result"
    /\ dAttempts = <<"K2">>
    /\ "K1" \in Values(keyPool)
    /\ KeyOf(keyPool, "K1").status = "exhausted"
    /\ KeyOf(keyPool, "K1").resetTime > now
    /\ KeyOf(keyPool, "K1").lastError = "Quota exceeded"
    /\ ~KeyOf(keyPool, "K2").isPinned

\* ------------------------------------------------------------ C6
\* C6: when initializeApiKeys rebuilds the pool from a list with the same key values in
\* another order, every key value keeps the status, resetTime, lastError and lastChecked it
\* had in the pool.
C6_ReorderKeepsLiveData ==
    [][(/\ Len(keyPool') = Len(keyPool)
        /\ Values(keyPool') = Values(keyPool)
        /\ \E i \in 1..Len(keyPool) : keyPool'[i].value # keyPool[i].value)
       => \A v \in Values(keyPool) : Health(KeyOf(keyPool', v)) = Health(KeyOf(keyPool, v))]_vars

\* the keys have been reordered, and K1 is still cooling down in the pool although the
\* list the pool was rebuilt from shows it as active
C6_Witness ==
    /\ Len(keyPool) = 2
    /\ keyPool[1].value = "K2"
    /\ keyPool[2].value = "K1"
    /\ keyPool[2].status = "exhausted"
    /\ keyPool[2].resetTime > now
    /\ keyPool[1].status = "active"
    /\ settingsKeys[2].value = "K1"
    /\ settingsKeys[2].status = "active"

\* ------------------------------------------------------------ C7
\* keyPool.find(k => k.isPinned)
PinnedKey(keys) == keys[CHOOSE i \in Pinned(keys) : \A j \in Pinned(keys) : i <= j]

\* a key a dispatch sends a request with when it reaches it
Attemptable(k, t) ==
    /\ k.status \notin {"invalid", "config_error", "unknown"}
    /\ (k.resetTime = NoTime \/ k.resetTime <= t)

\* C7 as stated: with a pinned key in the pool the first request of a dispatch is never
\* sent with another key than the pinned one, and when the pinned key is unusable (invalid,
\* config_error or cooling down) the dispatch sends no request at all.
C7_PinnedKeyIsHardDirective ==
    [][(DispatchStartStep /\ Pinned(keyPool) # {})
       => /\ dAttempts' = <<>> \/ dAttempts'[1] = PinnedKey(keyPool).value
          /\ ~EligibleNow(PinnedKey(keyPool), now) => dAttempts' = <<>>]_vars

\* C7 as amended: with a pinned key in the pool a dispatch tries the pinned key first when
\* it can attempt it; when it cannot, it falls back to the first non-pinned key, in pool
\* order, that it can attempt, and fails without a request only when there is none.
C7_PinnedKeyFirstWithFallback ==
    [][(DispatchStartStep /\ Pinned(keyPool) # {})
       => LET pinnedKey == PinnedKey(keyPool)
              fallback == SelectSeq(keyPool, LAMBDA k : ~k.isPinned /\ Attemptable(k, now))
          IN IF Attemptable(pinnedKey, now) THEN dAttempts' = <<pinnedKey.value>>
             ELSE IF Len(fallback) > 0 THEN dAttempts' = <<fallback[1].value>>
             ELSE dAttempts' = <<>> /\ dResult' = "AllKeysFailedError"]_vars

\* a dispatch has started on a pool whose pinned key K2 is invalid, and its first request
\* uses the key K1 stored before it
C7_Witness ==
    /\ dpc = "inflight"
    /\ dLive
    /\ dAttempts = <<"K1">>
    /\ Len(keyPool) = 2
    /\ keyPool[2].value = "K2"
    /\ keyPool[2].isPinned
    /\ keyPool[2].status = "invalid"

\* ------------------------------------------------------------ C8
\* C8: whatever keys are added, removed, pinned, unpinned or reordered, and however often
\* initializeApiKeys rebuilds the pool, at most one key of the pool is pinned.
C8_AtMostOnePinned == Cardinality(Pinned(keyPool)) <= 1

\* the pin has moved from K2, or has been set, on the first of two keys
C8_Witness ==
    /\ Len(keyPool) = 2
    /\ keyPool[1].isPinned
    /\ ~keyPool[2].isPinned

\* ------------------------------------------------------------ C10
\* C10: a dispatch whose first eligible key in priority order has status unknown (and no
\* resetTime in the future) sends its first request with that key.
C10_UnknownKeyIsAttempted ==
    [][DispatchStartStep
       => LET order == getOrderedKeys(keyPool)
              eligible == {i \in 1..Len(order) : EligibleNow(order[i], now)}
          IN \A i \in eligible :
                (order[i].status = "unknown" /\ \A j \in eligible : i <= j)
                => dAttempts' = <<order[i].value>>]_vars

\* ------------------------------------------------------------ classification of responses
\* A request with the key K1 is awaiting its response.  K1 is as a dispatch can find it
\* when it attempts it: active, or exhausted or rate_limited with its cooldown just over.
ClassifyPools ==
    {<<ApiKey("K1", st, rt, le, NoTime, FALSE)>> \o rest :
        st \in {"active", "exhausted", "rate_limited"}, rt \in {NoTime, 1},
        le \in {NoError, "Quota exceeded"},
        rest \in {<<>>, <<StoredKey("K2", FALSE)>>}}

InitClassify ==
    /\ now = 1
    /\ left = [ticks |-> 0, edits |-> 0, listEdits |-> 0, dispatches |-> 0, healthChecks |-> 0]
    /\ keyPool \in ClassifyPools
    /\ settingsKeys = keyPool
    /\ checks = {}
    /\ dpc = "inflight"
    /\ dOrder = [i \in 1..Len(keyPool) |-> keyPool[i].value]
    /\ dLive = TRUE
    /\ dObjs = <<>>
    /\ dIdx = 1
    /\ dUpd = "live"
    /\ dAttempts = <<"K1">>
    /\ dResult = "none"
    /\ dFailedKeys = <<>>
    /\ dUsedKey = "none"
    /\ hcPending = {}
    /\ hcFromUI = FALSE
    /\ dMarkedBad = {}
    /\ configOk = TRUE
    /\ WorkflowIdle

NextClassify ==
    \/ \E r \in Responses : DispatchResponse(r) /\ NoteMark(r) /\ UNCHANGED <<avars, scvars, xvars>>
    \/ \E h \in BOOLEAN : CallerContinues(h) /\ UNCHANGED <<dMarkedBad, avars, scvars, xvars>>

SpecClassify == InitClassify /\ [][NextClassify]_vars

\* ------------------------------------------------------------ C9
\* C9: a failed response gives the key of the request the status of the first rule that
\* matches: not found -> config_error; HTTP 403, PERMISSION_DENIED or an invalid-key message
\* -> invalid without resetTime; HTTP 429, RESOURCE_EXHAUSTED or a quota message -> exhausted
\* until now + 24 h; HTTP 5xx -> rate_limited until now + 5 min; anything else -> unknown
\* without resetTime.
C9_ClassificationTable ==
    [][\A r \in Responses :
          (r.kind = "response" /\ Failed(r) /\ dpc = "inflight" /\ DispatchResponse(r))
          => LET k == KeyOf(keyPool', LastAttempt)
                 code == IF r.hasError THEN r.status ELSE "undefined"
                 text == IF r.hasError THEN r.message ELSE "undefined"
             IN IF r.http = 404 \/ code = "NOT_FOUND"
                THEN k.status = "config_error"
                ELSE IF r.http = 403 \/ code = "PERMISSION_DENIED" \/ text = "API key not valid"
                THEN k.status = "invalid" /\ k.resetTime = NoTime
                ELSE IF r.http = 429 \/ code = "RESOURCE_EXHAUSTED" \/ text = "Quota exceeded"
                THEN k.status = "exhausted" /\ k.resetTime = now + KEY_COOLDOWN_PERIOD
                ELSE IF r.http \in 500..599
                THEN k.status = "rate_limited" /\ k.resetTime = now + SHORT_COOLDOWN_PERIOD
                ELSE k.status = "unknown" /\ k.resetTime = NoTime]_vars

\* a response that is both a permission rejection and a quota message has made K1 invalid:
\* the invalid-key rule comes before the quota rule
C9_Witness ==
    /\ "K1" \in Values(keyPool)
    /\ KeyOf(keyPool, "K1").status = "invalid"
    /\ KeyOf(keyPool, "K1").lastError = "Quota exceeded"
    /\ KeyOf(keyPool, "K1").resetTime = NoTime

\* ------------------------------------------------------------ C11
\* a key that was cooling down and whose resetTime has been reached
CooledOff(k, t) ==
    /\ k.status \in {"exhausted", "rate_limited"}
    /\ k.resetTime # NoTime
    /\ k.resetTime <= t

\* the position in the priority order the dispatch stood at before the step
WalkedFrom == IF dpc = "idle" THEN 0 ELSE dIdx

\* the priority order the dispatch walks in the step
WalkOrder ==
    IF dpc = "idle"
    THEN [i \in 1..Len(getOrderedKeys(keyPool)) |-> getOrderedKeys(keyPool)[i].value]
    ELSE dOrder

\* the position the dispatch stands at after the step: the key it attempts next, the end of
\* the order when it gave up, the same position when it returned or aborted
WalkedTo ==
    IF dpc' = "inflight" THEN dIdx'
    ELSE IF dResult' = "AllKeysFailedError" THEN Len(WalkOrder) + 1
    ELSE WalkedFrom

\* C11: a key marked exhausted or rate_limited is attempted again once the clock has reached
\* its resetTime, without a health check or a reset: a dispatch never walks past such a key
\* in its priority order, neither when it starts nor when it moves on to the next key.
C11_CooledKeyIsAttempted ==
    [][(DispatchStartStep \/ DispatchResponseStep)
        => \A i \in 1..Len(WalkOrder) :
              (WalkedFrom < i /\ i < WalkedTo /\ WalkOrder[i] \in Values(keyPool'))
                  => ~CooledOff(KeyOf(keyPool', WalkOrder[i]), now)]_vars

\* a request is in flight with a key that is still marked exhausted or rate_limited and
\* whose resetTime has been reached
C11_Witness ==
    /\ dpc = "inflight"
    /\ LastAttempt \in Values(keyPool)
    /\ CooledOff(KeyOf(keyPool, LastAttempt), now)

\* ------------------------------------------------------------ C12
\* C12: once a dispatch has marked a key invalid or config_error, no dispatch issues a
\* request with that key, as long as no health check, forced reset or removal of the key
\* has touched it.
C12_BadKeyStaysOut ==
    [][RequestIssued => LastAttempt' \notin dMarkedBad]_vars

\* ------------------------------------------------------------ C13
\* the priority order of a key list: the pinned key, then the other keys in stored order
PriorityOrder(keys) ==
    LET pinFirst == SelectSeq(keys, LAMBDA k : k.isPinned) \o SelectSeq(keys, LAMBDA k : ~k.isPinned)
    IN [i \in 1..Len(pinFirst) |-> pinFirst[i].value]

\* the position of the value v in the sequence of values s, 0 when it is not there
IndexOf(s, v) ==
    IF \E i \in 1..Len(s) : s[i] = v THEN CHOOSE i \in 1..Len(s) : s[i] = v ELSE 0

\* C13: within one dispatch the keys are attempted one after another in priority order (the
\* pinned key first, then the others in stored order), each key at most once; a request is
\* issued only when the dispatch starts or when its previous request has resolved, and none
\* is issued after the request that succeeded.
C13_OneKeyAfterAnotherInPriorityOrder ==
    [][/\ RequestIssued =>
            /\ DispatchStartStep \/ DispatchResponseStep
            /\ dOrder' = IF dpc = "idle" THEN PriorityOrder(keyPool) ELSE dOrder
            /\ dAttempts' = Append(IF dpc = "idle" THEN <<>> ELSE dAttempts, dOrder'[dIdx'])
            /\ \A i \in 1..Len(dAttempts') : IndexOf(dOrder', dAttempts'[i]) > 0
            /\ \A i, j \in 1..Len(dAttempts') :
                  i < j => IndexOf(dOrder', dAttempts'[i]) < IndexOf(dOrder', dAttempts'[j])
       /\ (dpc = "inflight" /\ dpc' = "done" /\ dResult' = "result") =>
            /\ dUsedKey' = LastAttempt
            /\ dAttempts' = dAttempts
       /\ dpc = "done" => dpc' # "inflight"]_vars

\* a dispatch over a pool whose pinned key is stored last has attempted both keys, the
\* pinned one first, and returned the result of the second
C13_Witness ==
    /\ dpc = "done"
    /\ dResult = "result"
    /\ Len(keyPool) = 2
    /\ keyPool[2].isPinned
    /\ dAttempts = <<keyPool[2].value, keyPool[1].value>>
    /\ dUsedKey = keyPool[1].value

\* ------------------------------------------------------------ C14
\* what the request that has just failed assigned to the key k: the mark of one of the
\* failures that let the dispatch go on
AssignedByFailure(k, t) ==
    {Mark(k, r, t) : r \in {x \in ServiceResponses :
                               x.kind = "throw" \/ (Failed(x) /\ ~isConfigError(x))}}

\* C14: a dispatch whose requests all failed, none of them with not-found, ends with
\* AllKeysFailedError after at most one request per key of the pool; the failedKeys of the
\* error are the keys of the pool, and the key of the last request has in them the status,
\* resetTime and lastError that its failure assigned.
C14_AllFailedCarriesTheMarks ==
    [][(dpc = "inflight" /\ dpc' = "done" /\ dResult' \notin {"result", "ConfigError"})
        => /\ dResult' = "AllKeysFailedError"
           /\ Len(dAttempts') <= Len(dOrder)
           /\ dFailedKeys' = keyPool'
           /\ LastAttempt \in Values(keyPool) =>
                 /\ LastAttempt \in Values(dFailedKeys')
                 /\ KeyOf(dFailedKeys', LastAttempt)
                        \in AssignedByFailure(KeyOf(keyPool, LastAttempt), now)]_vars

\* ------------------------------------------------------------ C15
\* C15 as stated: performSelfCheck halts its caller only with a ConfigError, and returns
\* normally in every other case.
C15_HaltsOnlyWithConfigError ==
    scPc = "done" => scResult \in {"return", "ConfigError"}

\* C15, amended: performSelfCheck halts its caller with a ConfigError exactly when its
\* probe reported not-found, and with an AllKeysFailedError exactly when the pool holds
\* keys but none that it can probe; after every other outcome of the probe (active,
\* invalid, exhausted, unknown, a network failure) and on an empty pool it returns normally.
C15_HaltsOnConfigErrorOrNoKey ==
    scPc = "done" =>
        /\ scResult \in {"return", "ConfigError", "AllKeysFailedError"}
        /\ scResult = "ConfigError" <=> scProbe = "ConfigError"
        /\ scResult = "AllKeysFailedError" <=>
              (Len(keyPool) > 0 /\ \A i \in 1..Len(keyPool) : ~EligibleNow(keyPool[i], now))
        /\ scProbe = "none" <=> \A i \in 1..Len(keyPool) : ~EligibleNow(keyPool[i], now)

\* the probe reported an exhausted key and performSelfCheck returned normally
C15_Witness ==
    /\ scPc = "done"
    /\ scProbe = "exhausted"
    /\ scResult = "return"

\* ------------------------------------------------------------ C20
\* C20: at most one analysis or synthesis call is in flight at any time, whatever the
\* interleaving of start, resume or retry, full reset and call completion.
C20_OneCallInFlight == Cardinality(InFlight) <= 1

\* ------------------------------------------------------------ C16
\* the calls issued for the upload with number run, in the order they were issued
CallsOf(run) == SelectSeq(calls, LAMBDA c : c.run = run)

\* C16: as long as no call has failed, the calls issued for an upload of N images are, in
\* this order, one analysis call for each image in input order and then one synthesis call,
\* never more; and the cursor is done only when all N + 1 of them have been issued and have
\* returned.
C16_EachImageOnceThenSynthesis ==
    (\A j \in 1..Len(calls) : calls[j].outcome \in {"pending", "result"})
    => /\ \A run \in 1..uploads :
             LET mine == CallsOf(run)
             IN mine # <<>> =>
                  /\ Len(mine) <= mine[1].n + 1
                  /\ \A i \in 1..Len(mine) :
                        /\ mine[i].n = mine[1].n
                        /\ IF i <= mine[1].n
                           THEN mine[i].kind = "analysis" /\ mine[i].image = <<run, i>>
                           ELSE mine[i].kind = "synthesis"
       /\ analysisCursor.status = "done" =>
             LET mine == CallsOf(uploads)
             IN /\ mine # <<>>
                /\ Len(mine) = mine[1].n + 1
                /\ \A i \in 1..Len(mine) : mine[i].outcome = "result"

\* ------------------------------------------------------------ C17
\* the call j fails in the step
FailsNow(j) == calls[j].outcome = "pending" /\ calls'[j].outcome \in CallErrors

\* C17: when the analysis call for image k fails, the cursor becomes paused with
\* currentIndex still k, and the image descriptions and the evolving story summary are
\* left as they were.
C17_FailurePausesAtSameIndex ==
    [][\A j \in 1..Len(calls) :
          (FailsNow(j) /\ calls[j].kind = "analysis")
          => /\ analysisCursor'.status = "paused"
             /\ analysisCursor'.currentIndex = calls[j].index
             /\ allUploadedImages' = allUploadedImages
             /\ evolvingStorySummary' = evolvingStorySummary]_vars

\* ------------------------------------------------------------ C18
\* the retry action bound by handleError is invoked in the step
RetryInvoked == QuotaRetry \/ ErrorStateRetry

\* the step issues exactly one call, of the given kind
Issues(kind) ==
    /\ Len(calls') = Len(calls) + 1
    /\ calls'[Len(calls')].kind = kind
    /\ calls'[Len(calls')].outcome = "pending"

\* C18: after the analysis call for image k has failed, with whatever error, invoking the
\* bound retry action puts the cursor back to running at index k and issues the call for
\* image k again.
C18_RetryReissuesSameImage ==
    [][(RetryInvoked /\ retryAction = "resumeAnalysis")
        => /\ analysisCursor' = [analysisCursor EXCEPT !.status = "running"]
           /\ analysisCursor.currentIndex < Len(analysisCursor.imagesToAnalyze)
           /\ Issues("analysis")
           /\ calls'[Len(calls')].index = analysisCursor.currentIndex
           /\ calls'[Len(calls')].image
                 = analysisCursor.imagesToAnalyze[analysisCursor.currentIndex + 1].id]_vars

\* ------------------------------------------------------------ C19
\* the synthesis calls that have failed, by their position in the call log
FailedSyntheses ==
    {j \in 1..Len(calls) : calls[j].kind = "synthesis" /\ calls[j].outcome \in CallErrors}

\* the synthesis call that failed last
LastFailedSynthesis == calls[CHOOSE j \in FailedSyntheses : \A i \in FailedSyntheses : i <= j]

\* C19: when the synthesis call fails, the cursor becomes paused with currentIndex equal to
\* the number of images; invoking the bound retry action issues the synthesis call again,
\* and no other call, with the story summary and the image descriptions of the failed
\* attempt.
C19_RetryReissuesSynthesis ==
    [][/\ \A j \in 1..Len(calls) :
             (FailsNow(j) /\ calls[j].kind = "synthesis")
             => /\ analysisCursor'.status = "paused"
                /\ analysisCursor'.currentIndex = calls[j].n
                /\ analysisCursor'.currentIndex = Len(analysisCursor'.imagesToAnalyze)
       /\ (RetryInvoked /\ retryAction = "retrySynth")
             => /\ FailedSyntheses # {}
                /\ Issues("synthesis")
                /\ calls'[Len(calls')].story = LastFailedSynthesis.story
                /\ calls'[Len(calls')].analyzed = LastFailedSynthesis.analyzed]_vars

\* ------------------------------------------------------------ C21
\* the story summary after the successful calls for the first k images of the upload run
StoryAfter(run, k) == [i \in 1..k |-> <<run, i>>]

\* C21: the analysis call for image k is issued with the story summary produced by the
\* successful call for image k-1 (the empty summary for k = 0) and with the descriptions
\* of the images 0..k-1 recorded; the synthesis call is issued with the summary produced
\* by the call for the last image.
C21_CallSeesPreviousSteps ==
    \A j \in 1..Len(calls) :
        IF calls[j].kind = "analysis"
        THEN /\ calls[j].story = StoryAfter(calls[j].run, calls[j].index)
             /\ {<<calls[j].run, i>> : i \in 1..calls[j].index} \subseteq calls[j].analyzed
        ELSE calls[j].story = StoryAfter(calls[j].run, calls[j].n)

\* ------------------------------------------------------------ video generation
\* App.tsx line 574: the number of status checks handleGenerateVideo allows itself
VIDEO_POLLS == 30

\* geminiService.ts lines 1091-1099: the pinned key when it is neither cooling down nor
\* invalid, else the first key that is neither, else null
getCurrentApiKey(pool, t) ==
    LET usable(k) == k.status # "invalid" /\ (k.resetTime = NoTime \/ k.resetTime <= t)
        pinned == {i \in 1..Len(pool) : pool[i].isPinned}
        first(S) == CHOOSE i \in S : \A j \in S : i <= j
        free == {i \in 1..Len(pool) : usable(pool[i])}
    IN IF pinned # {} /\ pool[first(pinned)].resetTime \in {NoTime} \cup 0..t
          /\ pool[first(pinned)].status # "invalid"
       THEN pool[first(pinned)].value
       ELSE IF free # {} THEN pool[first(free)].value ELSE "null"

\* what a poll of the video job can answer: done or not, with a video URI or without
VideoOperations == [done : BOOLEAN, uri : BOOLEAN]

\* a loop that polls until the job is done
pollAgain_Unbounded(op, i) == ~op.done

\* App.tsx lines 574-575: the loop goes round again
pollAgain(op, i) == i < VIDEO_POLLS /\ ~op.done

\* App.tsx lines 574-591: handleGenerateVideo from the head of the loop, with videoOp = op
\* and loop variable i, up to its next await or to its end
afterVideoOp(op, i) ==
    /\ videoOp' = op
    /\ pollI' = i
    /\ IF pollAgain(op, i)
       THEN /\ vpc' = "timer"
            /\ UNCHANGED videoGenState
       ELSE /\ vpc' = "idle"
            /\ videoGenState' = IF op.done /\ op.uri /\ getCurrentApiKey(keyPool, now) # "null"
                                THEN "success"
                                ELSE "error"

\* what a video generation leaves alone
VideoFrame ==
    /\ UNCHANGED <<now, left, keyPool, settingsKeys, checks, hcPending, hcFromUI, dMarkedBad>>
    /\ UNCHANGED dvars
    /\ UNCHANGED avars
    /\ UNCHANGED scvars
    /\ UNCHANGED <<logged, configOk, pvars>>

\* App.tsx lines 568-572: handleGenerateVideo up to the await of gemini.generateVideo; the
\* style dialog it is started from is not offered while an export is running
handleGenerateVideo ==
    /\ videoGenState = "idle"
    /\ vpc = "idle"
    /\ videoGenState' = "generating"
    /\ vpc' = "generate"
    /\ pollI' = 0
    /\ UNCHANGED videoOp
    /\ VideoFrame

\* App.tsx lines 572-573: gemini.generateVideo returned the operation op
generateVideoReturns(op) ==
    /\ vpc = "generate"
    /\ afterVideoOp(op, 0)
    /\ VideoFrame

\* App.tsx lines 577-578: the delay is over and gemini.checkVideoStatus is called
TimerFires ==
    /\ vpc = "timer"
    /\ vpc' = "status"
    /\ UNCHANGED <<videoGenState, pollI, videoOp>>
    /\ VideoFrame

\* App.tsx line 578 and the i++ of line 574: gemini.checkVideoStatus returned op
checkVideoStatusReturns(op) ==
    /\ vpc = "status"
    /\ afterVideoOp(op, pollI + 1)
    /\ VideoFrame

\* App.tsx lines 588-592: gemini.generateVideo or gemini.checkVideoStatus threw
VideoCallThrows ==
    /\ vpc \in {"generate", "status"}
    /\ vpc' = "idle"
    /\ videoGenState' = "error"
    /\ UNCHANGED <<pollI, videoOp>>
    /\ VideoFrame

\* App.tsx lines 597-600: closeVideoOverlay, offered by the overlay of a generation that
\* has ended
closeVideoOverlay ==
    /\ videoGenState \in {"success", "error"}
    /\ videoGenState' = "idle"
    /\ UNCHANGED <<vpc, pollI, videoOp>>
    /\ VideoFrame

\* the pools a video generation can end on: any state of a first key, alone or followed
\* by a pinned second key
VideoPools(t) ==
    {<<>>} \cup {<<k>> : k \in KeyStates("K1", t)}
    \cup {<<k1, [k2 EXCEPT !.isPinned = TRUE]>> :
            k1 \in {StoredKey("K1", FALSE), MarkThrown(StoredKey("K1", FALSE))},
            k2 \in KeyStates("K2", t)}

InitVideo ==
    /\ now = 1 + KEY_COOLDOWN_PERIOD
    /\ left = [ticks |-> 0, edits |-> 0, listEdits |-> 0, dispatches |-> 0, healthChecks |-> 0]
    /\ keyPool \in VideoPools(now)
    /\ settingsKeys = getKeyPoolState(keyPool)
    /\ checks = {}
    /\ dpc = "idle"
    /\ dOrder = <<>>
    /\ dLive = TRUE
    /\ dObjs = <<>>
    /\ dIdx = 0
    /\ dUpd = "none"
    /\ dAttempts = <<>>
    /\ dResult = "none"
    /\ dFailedKeys = <<>>
    /\ dUsedKey = "none"
    /\ hcPending = {}
    /\ hcFromUI = FALSE
    /\ dMarkedBad = {}
    /\ configOk = TRUE
    /\ WorkflowIdle

NextVideo ==
    \/ handleGenerateVideo
    \/ \E op \in VideoOperations : generateVideoReturns(op)
    \/ TimerFires
    \/ \E op \in VideoOperations : checkVideoStatusReturns(op)
    \/ VideoCallThrows
    \/ closeVideoOverlay

\* every timer fires and every call of the service returns or throws
SpecVideo == InitVideo /\ [][NextVideo]_vars /\ WF_vars(NextVideo)

\* the status checks of the running generation, the one in flight included
PollsIssued == pollI + (IF vpc = "status" THEN 1 ELSE 0)

VideoBounded ==
    /\ PollsIssued <= VIDEO_POLLS
    /\ vpc = "idle" => videoGenState \in {"idle", "success", "error"}
    /\ videoGenState = "success" => videoOp.done /\ videoOp.uri
    /\ (vpc = "idle" /\ videoGenState # "idle" /\ ~videoOp.done) => videoGenState = "error"

\* C22: a video generation checks the status of its job at most 30 times and always ends,
\* in success only with a job that is done and has a video URI, else in error; a job that
\* is not done after the last check ends in error
C22_VideoGenerationEnds ==
    /\ []VideoBounded
    /\ (videoGenState = "generating") ~> (videoGenState \in {"success", "error"})

C22_Witness ==
    /\ vpc = "idle"
    /\ videoGenState = "error"
    /\ pollI = VIDEO_POLLS
    /\ ~videoOp.done

\* ------------------------------------------------------------ the log
\* the secrets of the keys, as the characters the user typed
Secret(v) ==
    IF v = "K1" THEN <<"A", "I", "z", "a", "k", "1">> ELSE <<"A", "I", "z", "a", "k", "2">>

\* String.prototype.slice(-4)
slice4(s) == IF Len(s) <= 4 THEN s ELSE SubSeq(s, Len(s) - 3, Len(s))

\* lines 688 and 1016: `...${key.slice(-4)}`
maskedKey(v) == <<".", ".", ".">> \o slice4(Secret(v))

\* the event of line n whose message and details name the key v as maskedKey
Masked(n, v) == {[line |-> n, text |-> maskedKey(v)]}

\* the event of line n when its details hold the key objects of pool (lines 679 and 778:
\* { apiResponse: { failedKeys: keyPool } }): the value of each key is part of the event
WithKeyObjects(n, pool) == {[line |-> n, text |-> Secret(pool[i].value)] : i \in 1..Len(pool)}

\* lines 676-681, 693 and 776-779: what the start of a dispatch logs
DispatchStartLogs ==
    IF dpc' = "inflight" THEN Masked(693, dOrder'[dIdx'])
    ELSE IF Len(getAvailableKeys(getOrderedKeys(keyPool), now)) = 0 /\ Len(keyPool) > 0
    THEN WithKeyObjects(679, keyPool)
    ELSE WithKeyObjects(778, keyPool)

\* lines 717-719, 744, 767, then 693 or 776-779: what a dispatch logs between the
\* resolution of a request and its next await or its end
DispatchResponseLogs(r) ==
    Masked(IF r.kind = "throw" THEN 767 ELSE IF Failed(r) THEN 719 ELSE 744, dOrder[dIdx])
    \cup (IF dpc' = "inflight" THEN Masked(693, dOrder'[dIdx'])
          ELSE IF dResult' = "AllKeysFailedError" THEN WithKeyObjects(778, keyPool')
          ELSE {})

\* lines 1016-1070: what checkApiKey logs for the key v: the request, then its outcome
checkApiKeyLogs(v) == Masked(1019, v) \cup Masked(1034, v)

\* lines 783, 796 and 800: what performSelfCheck logs itself once the probe resolved
SelfCheckLogs == IF scResult' = "ConfigError" THEN {} ELSE Masked(800, scKey)

Logs(events) == logged' = logged \cup events

InitLog ==
    /\ now = 1
    /\ left = [ticks |-> 0, edits |-> 0, listEdits |-> 0,
               dispatches |-> 1, healthChecks |-> MaxHealthChecks]
    /\ settingsKeys \in StoredKeyLists
    /\ keyPool = initializeApiKeys(<<>>, settingsKeys)
    /\ checks = {}
    /\ dpc = "idle"
    /\ dOrder = <<>>
    /\ dLive = TRUE
    /\ dObjs = <<>>
    /\ dIdx = 0
    /\ dUpd = "none"
    /\ dAttempts = <<>>
    /\ dResult = "none"
    /\ dFailedKeys = <<>>
    /\ dUsedKey = "none"
    /\ hcPending = {}
    /\ hcFromUI = FALSE
    /\ dMarkedBad = {}
    /\ configOk = TRUE
    /\ WorkflowIdle

\* what the operations of the key pool leave alone, the log apart
LogFrame == UNCHANGED <<avars, vvars, configOk, pvars>>

NextLog ==
    \/ DispatchStart /\ Logs(DispatchStartLogs) /\ UNCHANGED <<dMarkedBad, scvars>> /\ LogFrame
    \/ \E r \in ServiceResponses :
          DispatchResponse(r) /\ NoteMark(r) /\ Logs(DispatchResponseLogs(r))
          /\ UNCHANGED scvars /\ LogFrame
    \/ \E h \in BOOLEAN :
          CallerContinues(h) /\ UNCHANGED <<dMarkedBad, scvars, logged>> /\ LogFrame
    \/ performSelfCheck /\ UNCHANGED logged /\ UNCHANGED <<vvars, configOk, pvars>>
    \/ \E r \in ServiceResponses :
          SelfCheckProbe(r) /\ Logs(checkApiKeyLogs(scKey) \cup SelfCheckLogs)
          /\ UNCHANGED <<vvars, configOk, pvars>>
    \/ HealthCheckStart /\ Logs(UNION {Masked(1019, v) : v \in Values(keyPool)})
       /\ UNCHANGED <<dMarkedBad, scvars>> /\ LogFrame
    \/ \E v \in KeyValues, r \in ServiceResponses :
          HealthCheckProbe(v, r) /\ Touched({v}) /\ Logs(Masked(1034, v))
          /\ UNCHANGED scvars /\ LogFrame

SpecLog == InitLog /\ [][NextLog]_vars

\* the text holds the secret as a whole
Contains(text, secret) ==
    \E i \in 1..Len(text) :
        /\ i + Len(secret) - 1 <= Len(text)
        /\ SubSeq(text, i, i + Len(secret) - 1) = secret

\* C23: no event that a dispatch, a pre-flight check or a health check hands to the
\* logger holds the whole secret of a key
C23_LogsShowOnlyMaskedKeys ==
    \A e \in logged : \A v \in KeyValues : ~Contains(e.text, Secret(v))

\* ------------------------------------------------------------ a wrong model or endpoint
\* the answer for a model or endpoint that does not exist, with and without an error object
NotFound ==
    [kind |-> "response", http |-> 404, hasError |-> TRUE, status |-> "NOT_FOUND",
     message |-> "undefined", candidates |-> FALSE]

\* what a request can meet: any answer of the service while the configured model and
\* endpoint exist, else a 404 in either form, or a failure of the network
ServiceNow == IF configOk THEN ServiceResponses ELSE {NotFound, Plain(404), Thrown}

\* App.tsx lines 285-312: handleError(e, onRetry), but for the keys of an
\* AllKeysFailedError, which go to handleSettingsChange
handleError(e) ==
    /\ isConfigErrorModalOpen' = IF e = "ConfigError" THEN TRUE ELSE isConfigErrorModalOpen
    /\ configErrorSeen' = IF e = "ConfigError" THEN TRUE ELSE configErrorSeen
    /\ isQuotaErrorModalOpen' = IF e = "AllKeysFailedError" THEN TRUE ELSE isQuotaErrorModalOpen
    /\ appState' = IF e \in {"ConfigError", "AllKeysFailedError"} THEN appState ELSE "error"
    /\ retryAction' = "step"
    /\ UNCHANGED <<analysisCursor, evolvingStorySummary, allUploadedImages, calls, uploads,
                   isSettingsOpen, analysisProgress>>

\* a step of the workflow (createInitialPlan, analyzeNextFrame, generateStoryboard, ...:
\* geminiService.ts lines 818, 854, 905, 945, 972, 1076) starts with the pre-flight check
StepStart ==
    /\ dpc = "idle"
    /\ ~isQuotaErrorModalOpen
    /\ ~isConfigErrorModalOpen
    /\ performSelfCheck
    /\ UNCHANGED xvars

\* the probe of the pre-flight check resolves
StepProbe(r) == SelfCheckProbe(r) /\ UNCHANGED xvars

SelfCheckOver ==
    /\ scPc' = "idle"
    /\ scKey' = "none"
    /\ scProbe' = "none"
    /\ scResult' = "none"

\* the pre-flight check threw: the step ends in the catch block of its caller, in
\* handleError
StepHalts ==
    /\ scPc = "done"
    /\ scResult # "return"
    /\ SelfCheckOver
    /\ handleError(scResult)
    /\ IF scResult = "AllKeysFailedError"
       THEN failedKeys' = getKeyPoolState(keyPool) /\ onKeysChange(getKeyPoolState(keyPool))
       ELSE UNCHANGED <<failedKeys, keyPool, settingsKeys>> /\ UNCHANGED dvars
    /\ UNCHANGED <<now, left, checks, hcPending, hcFromUI, dMarkedBad>>
    /\ UNCHANGED xvars

\* the pre-flight check returned: the step calls makeGoogleApiCall
StepDispatches ==
    /\ scPc = "done"
    /\ scResult = "return"
    /\ SelfCheckOver
    /\ DispatchStart
    /\ UNCHANGED <<dMarkedBad, avars, xvars>>

\* makeGoogleApiCall returned or threw: the step ends, a failed one in handleError
StepEnds ==
    /\ CallerContinues(TRUE)
    /\ IF dResult = "result"
       THEN UNCHANGED avars
       ELSE handleError(dResult)
            /\ failedKeys' = IF dResult = "AllKeysFailedError" THEN dFailedKeys ELSE failedKeys
    /\ UNCHANGED <<dMarkedBad, scvars, xvars>>

\* the user sets another model or endpoint in the settings: handleSettingsChange; the
\* effect of App.tsx lines 253-283 does not depend on either
ChangeConfig ==
    /\ dpc = "idle"
    /\ scPc = "idle"
    /\ configOk' = ~configOk
    /\ UNCHANGED <<now, left, keyPool, settingsKeys, checks, hcPending, hcFromUI, dMarkedBad>>
    /\ UNCHANGED <<dvars, avars, scvars, vvars, logged, pvars>>

InitConfig ==
    /\ now = 1
    /\ left = [ticks |-> 0, edits |-> 0, listEdits |-> 0,
               dispatches |-> MaxDispatches, healthChecks |-> 0]
    /\ settingsKeys \in StoredKeyLists \ {<<>>}
    /\ keyPool = initializeApiKeys(<<>>, settingsKeys)
    /\ checks = {}
    /\ dpc = "idle"
    /\ dOrder = <<>>
    /\ dLive = TRUE
    /\ dObjs = <<>>
    /\ dIdx = 0
    /\ dUpd = "none"
    /\ dAttempts = <<>>
    /\ dResult = "none"
    /\ dFailedKeys = <<>>
    /\ dUsedKey = "none"
    /\ hcPending = {}
    /\ hcFromUI = FALSE
    /\ dMarkedBad = {}
    /\ configOk \in BOOLEAN
    /\ WorkflowIdle

NextConfig ==
    \/ StepStart
    \/ \E r \in ServiceNow : StepProbe(r)
    \/ StepHalts
    \/ StepDispatches
    \/ \E r \in ServiceNow : DispatchResponse(r) /\ NoteMark(r) /\ UNCHANGED <<avars, scvars, xvars>>
    \/ StepEnds
    \/ ModalClose
    \/ ChangeConfig

SpecConfig == InitConfig /\ [][NextConfig]_vars

\* nothing but the configuration stands in the way of a call: there are keys, and none
\* of them is rejected, out of quota or of unknown state
OnlyConfigWrong ==
    /\ ~configOk
    /\ Len(keyPool) > 0
    /\ \A i \in 1..Len(keyPool) :
           /\ keyPool[i].status \in {"active", "config_error"}
           /\ keyPool[i].resetTime = NoTime

\* a step of the workflow fails in this step
StepFails == StepHalts \/ (StepEnds /\ dResult # "result")

\* C24: a step of the workflow that fails while only the model or endpoint is wrong, the
\* first one as well as every later one, opens the configuration dialog and not the
\* quota dialog
C24_WrongConfigOpensConfigDialog ==
    [][(StepFails /\ OnlyConfigWrong)
       => (isConfigErrorModalOpen' /\ ~isQuotaErrorModalOpen')]_vars

\* C29: a change of the model or endpoint leaves no key of the pool marked config_error
C29_ConfigChangeReadmitsKeys ==
    [][ChangeConfig => \A i \in 1..Len(keyPool') : keyPool'[i].status # "config_error"]_vars

\* ------------------------------------------------------------ parseSlidesFromJson
\* the slides of a response in the model, and the sections of a text in Markdown
MaxSlides == 2
MaxSections == 2

\* JavaScript values are written as their source text: "undefined" is a property that is
\* missing, "''" the empty string
Falsy == {"undefined", "null", "''", "0", "false"}

\* part_000 lines 21, 65 and 66: the placeholders of a slide without title or script,
\* transliterated
NoTitle == "Bez nazvaniya"
NoScript == "Net teksta."

\* a ?? b
Nullish(a, b) == IF a \in {"undefined", "null"} THEN b ELSE a

\* a || b
Or(a, b) == IF a \in Falsy THEN b ELSE a

\* !a
Not(a) == IF a \in Falsy THEN "true" ELSE "false"

\* the elements of a JSON array: objects whose text fields are missing, empty or set,
\* objects whose other fields are missing, null or set, null, a number
JsonObjects ==
    [kind : {"object"}, title : {"undefined", "''", "T"}, script : {"undefined", "S"},
     imageId : {"undefined", "''", "img1"}, textOverlay : {"undefined"},
     speaker : {"undefined"}, needsImage : {"undefined", "false"}]
    \cup [kind : {"object"}, title : {"T"}, script : {"S"},
          imageId : {"undefined", "img1"}, textOverlay : {"undefined", "O"},
          speaker : {"undefined", "null", "1"}, needsImage : {"undefined", "null", "false"}]

\* reading a property of a number gives undefined
NoFields(k) ==
    [kind |-> k, title |-> "undefined", script |-> "undefined", imageId |-> "undefined",
     textOverlay |-> "undefined", speaker |-> "undefined", needsImage |-> "undefined"]

JsonElements == JsonObjects \cup {NoFields("null"), NoFields("number")}

SeqsUpTo(S, n) == UNION {[1..m -> S] : m \in 0..n}

\* what JSON.parse makes of a text: it throws ("invalid"), or returns a value
JsonValues ==
    [kind : {"invalid", "null", "number", "string", "object"}, items : {<<>>}]
    \cup [kind : {"array"}, items : SeqsUpTo(JsonElements, MaxSlides)]

\* the parts of a text that start with the slide heading (part_000 line 15), as what the
\* regular expressions of lines 20-31 find in them
Sections == [title : {"undefined", "T"}, imageId : {"null", "img1"}, script : {"''", "S"}]

\* the texts of a response: the empty string; text that is not JSON, with slide headings
\* or without; JSON, a string of which may hold slide headings
Texts ==
    {EmptyText}
    \cup [raw : {"text"}, json : {[kind |-> "invalid", items |-> <<>>]},
          sections : SeqsUpTo(Sections, MaxSections)]
    \cup [raw : {"text"}, json : {[kind |-> "string", items |-> <<>>]},
          sections : SeqsUpTo(Sections, 1)]
    \cup [raw : {"text"}, json : JsonValues \ {[kind |-> "invalid", items |-> <<>>]},
          sections : {<<>>}]

\* part_000 lines 19-44: the slides of the sections, the speaker alternating over the
\* sections that have a script
RECURSIVE SectionSlides(_, _)
SectionSlides(sections, speakerIndex) ==
    IF sections = <<>> THEN <<>>
    ELSE LET section == Head(sections)
             title == IF section.title = "undefined" THEN NoTitle ELSE section.title
         IN IF section.script # "''"
            THEN <<[title |-> title, script |-> section.script, imageId |-> section.imageId,
                    speaker |-> IF speakerIndex = 0 THEN "0" ELSE "1",
                    needsImage |-> Not(section.imageId)]>>
                 \o SectionSlides(Tail(sections), (speakerIndex + 1) % 2)
            ELSE SectionSlides(Tail(sections), speakerIndex)

\* part_000 lines 9-47
parseSlidesFromMarkdown(markdownText) ==
    IF markdownText.raw = "''" \/ markdownText.sections = <<>>
    THEN <<>>
    ELSE SectionSlides(markdownText.sections, 0)

\* the fields with ?? in the place of ||
SlideOf_Nullish(item) ==
    [title |-> Nullish(item.title, NoTitle),
     script |-> Nullish(item.script, NoScript),
     imageId |-> Nullish(item.imageId, "null"),
     textOverlay |-> Nullish(item.textOverlay, "''"),
     needsImage |-> Nullish(item.needsImage, Not(item.imageId)),
     speaker |-> Nullish(item.speaker, "0")]

\* part_000 lines 63-75: the slide of an element; podcastScript and suggestions are
\* treated as textOverlay is
SlideOf(item) ==
    [title |-> Or(item.title, NoTitle),
     script |-> Or(item.script, NoScript),
     imageId |-> Or(item.imageId, "null"),
     textOverlay |-> Or(item.textOverlay, "''"),
     needsImage |-> Nullish(item.needsImage, Not(item.imageId)),
     speaker |-> Nullish(item.speaker, "0")]

\* JSON.parse throws, or the callback of map reads a property of null
TryThrows(parsed) ==
    \/ parsed.kind = "invalid"
    \/ parsed.kind = "array" /\ \E i \in 1..Len(parsed.items) : parsed.items[i].kind = "null"

\* the try block without its catch
parseSlidesFromJson_NoFallback(text) ==
    LET parsed == text.json
    IN IF TryThrows(parsed) THEN [threw |-> TRUE, slides |-> <<>>]
       ELSE IF parsed.kind # "array" THEN [threw |-> FALSE, slides |-> <<>>]
       ELSE [threw |-> FALSE,
             slides |-> [i \in 1..Len(parsed.items) |-> SlideOf(parsed.items[i])]]

\* part_000 lines 55-81
parseSlidesFromJson(text) ==
    LET parsed == text.json
    IN IF TryThrows(parsed) THEN [threw |-> FALSE, slides |-> parseSlidesFromMarkdown(text)]
       ELSE IF parsed.kind # "array" THEN [threw |-> FALSE, slides |-> <<>>]
       ELSE [threw |-> FALSE,
             slides |-> [i \in 1..Len(parsed.items) |-> SlideOf(parsed.items[i])]]

\* App.tsx lines 430 and 454: the text of a response is parsed
Parse ==
    /\ parsePc = "idle"
    /\ parsedSlides' = parseSlidesFromJson(jsonText)
    /\ parsePc' = "done"
    /\ UNCHANGED jsonText
    /\ UNCHANGED <<now, left, keyPool, settingsKeys, checks, hcPending, hcFromUI, dMarkedBad>>
    /\ UNCHANGED <<dvars, avars, scvars, vvars, logged, configOk>>

InitParse ==
    /\ now = 1
    /\ left = [ticks |-> 0, edits |-> 0, listEdits |-> 0, dispatches |-> 0, healthChecks |-> 0]
    /\ settingsKeys = <<>>
    /\ keyPool = <<>>
    /\ checks = {}
    /\ dpc = "idle"
    /\ dOrder = <<>>
    /\ dLive = TRUE
    /\ dObjs = <<>>
    /\ dIdx = 0
    /\ dUpd = "none"
    /\ dAttempts = <<>>
    /\ dResult = "none"
    /\ dFailedKeys = <<>>
    /\ dUsedKey = "none"
    /\ hcPending = {}
    /\ hcFromUI = FALSE
    /\ dMarkedBad = {}
    /\ configOk = TRUE
    /\ appState = "concept"
    /\ analysisCursor = IdleCursor
    /\ evolvingStorySummary = <<>>
    /\ allUploadedImages = <<>>
    /\ calls = <<>>
    /\ analysisProgress = NoProgress
    /\ uploads = 0
    /\ retryAction = "null"
    /\ isQuotaErrorModalOpen = FALSE
    /\ isConfigErrorModalOpen = FALSE
    /\ isSettingsOpen = FALSE
    /\ failedKeys = <<>>
    /\ configErrorSeen = FALSE
    /\ scPc = "idle"
    /\ scKey = "none"
    /\ scProbe = "none"
    /\ scResult = "none"
    /\ videoGenState = "idle"
    /\ vpc = "idle"
    /\ pollI = 0
    /\ videoOp = NoOperation
    /\ logged = {}
    /\ jsonText \in Texts
    /\ parsePc = "idle"
    /\ parsedSlides = NotParsed

NextParse == Parse

SpecParse == InitParse /\ [][NextParse]_vars

\* C25: parseSlidesFromJson never throws, and returns the empty list for the empty text,
\* for JSON that is not an array and for text that is neither JSON nor holds a slide heading
C25_NeverThrowsAndEmptyForUnrecognized ==
    parsePc = "done" =>
        /\ ~parsedSlides.threw
        /\ (\/ jsonText.raw = "''"
            \/ jsonText.json.kind \notin {"invalid", "array"}
            \/ jsonText.json.kind = "invalid" /\ jsonText.sections = <<>>)
           => parsedSlides.slides = <<>>

\* text that is not JSON and holds no slide heading was parsed
C25_Witness ==
    /\ parsePc = "done"
    /\ jsonText.raw = "text"
    /\ jsonText.json.kind = "invalid"
    /\ jsonText.sections = <<>>
    /\ parsedSlides = NotParsed

\* the slide of an element whose missing fields take their defaults
Defaulted(item, missing) ==
    LET or(a, b) == IF a \in missing THEN b ELSE a
    IN [title |-> or(item.title, NoTitle),
        script |-> or(item.script, NoScript),
        imageId |-> or(item.imageId, "null"),
        textOverlay |-> or(item.textOverlay, "''"),
        needsImage |-> IF item.needsImage \in {"undefined", "null"}
                       THEN (IF or(item.imageId, "null") = "null" THEN "true" ELSE "false")
                       ELSE item.needsImage,
        speaker |-> IF item.speaker \in {"undefined", "null"} THEN "0" ELSE item.speaker]

ReturnsNow(j) == calls[j].outcome = "pending" /\ calls'[j].outcome = "result"

\* the changes of the cursor status, each with what brings it about
CursorMove(from, to) ==
    \/ from = "idle" /\ to = "running" /\ \E n \in 1..MaxImages : handleUpload(n)
    \/ from = "running" /\ to = "paused" /\ \E j \in 1..Len(calls) : FailsNow(j)
    \/ from = "running" /\ to = "done"
       /\ \E j \in 1..Len(calls) : ReturnsNow(j) /\ calls[j].kind = "synthesis"
    \/ from = "paused" /\ to = "running" /\ RetryInvoked

\* C27: but for resetState, which ends a run and puts the cursor back to idle, the cursor
\* status changes only from idle to running at a start, from running to paused when a call
\* fails, from running to done when the synthesis returns and from paused to running at a
\* retry; and while the status is done no call is issued
C27_CursorFollowsItsLifecycle ==
    [][~resetState =>
         /\ analysisCursor'.status # analysisCursor.status
            => CursorMove(analysisCursor.status, analysisCursor'.status)
         /\ analysisCursor.status = "done" => Len(calls') = Len(calls)]_vars

\* ------------------------------------------------------------ C28
\* the requests to the service that have not resolved: the probes of a health check, the
\* key checks of the key manager and the request of the dispatch
RemoteCallsInFlight ==
    Cardinality(hcPending) + Cardinality(checks) + (IF dpc = "inflight" THEN 1 ELSE 0)

\* C28 as stated: at most one request to the service is in flight in the whole system
C28_OneRemoteCallInFlight == RemoteCallsInFlight <= 1

\* C28, amended: a dispatch issues a request only when it starts or when its previous
\* request has resolved, so that it never has two in flight; a health check issues its
\* probes together, one for each key of the pool, whatever else is in flight
C28_OneRequestPerDispatchProbesTogether ==
    [][/\ RequestIssued => (dpc = "idle" \/ DispatchResponseStep)
       /\ ~(hcPending' \subseteq hcPending)
          => (hcPending = {} /\ hcPending' = Values(keyPool))]_vars

\* the two probes of a health check are in flight together with the request of a dispatch
C28_Witness ==
    /\ Cardinality(hcPending) = 2
    /\ dpc = "inflight"

\* ------------------------------------------------------------ C30
\* the key with value v is in the pool before and after the step, and its status or its
\* resetTime is not what it was
Remarked(v) ==
    /\ FindIndex(keyPool, v) # 0
    /\ FindIndex(keyPool', v) # 0
    /\ \/ keyPool'[FindIndex(keyPool', v)].status # keyPool[FindIndex(keyPool, v)].status
       \/ keyPool'[FindIndex(keyPool', v)].resetTime # keyPool[FindIndex(keyPool, v)].resetTime

\* the step is the outcome of a request in makeGoogleApiCall, the outcome of a probe of
\* healthCheckAllKeys, or forceResetAllKeys
MarkingStep ==
    \/ \E r \in ServiceResponses \cup {Plain(404)} : DispatchResponse(r)
    \/ \E v \in KeyValues, r \in ServiceResponses \cup {Plain(404)} : HealthCheckProbe(v, r)
    \/ handleForceReset

\* the steps of the workflow together with the health check, the forced reset and the
\* re-run of the effect that rebuilds the pool
InitPool ==
    /\ now = 1
    /\ left = [ticks |-> 0, edits |-> MaxEdits, listEdits |-> 0,
               dispatches |-> 1, healthChecks |-> MaxHealthChecks]
    /\ settingsKeys \in StoredKeyLists \ {<<>>}
    /\ keyPool = initializeApiKeys(<<>>, settingsKeys)
    /\ checks = {}
    /\ dpc = "idle"
    /\ dOrder = <<>>
    /\ dLive = TRUE
    /\ dObjs = <<>>
    /\ dIdx = 0
    /\ dUpd = "none"
    /\ dAttempts = <<>>
    /\ dResult = "none"
    /\ dFailedKeys = <<>>
    /\ dUsedKey = "none"
    /\ hcPending = {}
    /\ hcFromUI = FALSE
    /\ dMarkedBad = {}
    /\ configOk = TRUE
    /\ WorkflowIdle

NextPool ==
    \/ StepStart
    \/ \E r \in ServiceNow : StepProbe(r)
    \/ StepHalts
    \/ StepDispatches
    \/ \E r \in ServiceNow : DispatchResponse(r) /\ NoteMark(r) /\ UNCHANGED <<avars, scvars, xvars>>
    \/ StepEnds
    \/ ModalClose
    \/ HealthCheckStart /\ UNCHANGED <<dMarkedBad, avars, scvars, xvars>>
    \/ \E v \in KeyValues, r \in ServiceNow :
          HealthCheckProbe(v, r) /\ Touched({v}) /\ UNCHANGED <<avars, scvars, xvars>>
    \/ handleForceReset /\ Touched(KeyValues) /\ UNCHANGED <<avars, scvars, xvars>>
    \/ EffectRerun /\ UNCHANGED <<dMarkedBad, avars, scvars, xvars>>

SpecPool == InitPool /\ [][NextPool]_vars

\* C30: the status and the resetTime of a key that stays in the pool change only with the
\* outcome of a dispatch request, with the outcome of a health-check probe or with a
\* forced reset; the pre-flight check, the error handling of the workflow and every other
\* operation leave them as they are
C30_OnlyDispatchAndChecksMarkKeys ==
    [][(\E v \in KeyValues : Remarked(v)) => MarkingStep]_vars

\* a dispatch has put two keys on cooldown, its failure has gone through handleError, and
\* a later pre-flight check has found no key to probe: the marks are as the dispatch left
\* them
C30_Witness ==
    /\ isQuotaErrorModalOpen
    /\ scPc = "idle"
    /\ dpc = "idle"
    /\ Len(keyPool) = 2
    /\ \A i \in 1..Len(keyPool) :
           keyPool[i].status = "exhausted" /\ keyPool[i].resetTime = now + KEY_COOLDOWN_PERIOD
    /\ left.dispatches = 0

\* ------------------------------------------------------------ C31
\* C31: after forceResetAllKeys every key of the pool is active and has no resetTime, no
\* lastError and no lastChecked, so the next dispatch skips none of them; the keys, their
\* order and their pins are what they were.
C31_ForceResetClearsEveryKey ==
    [][handleForceReset =>
          /\ Len(keyPool') = Len(keyPool)
          /\ \A i \in 1..Len(keyPool') :
                /\ keyPool'[i].value = keyPool[i].value
                /\ keyPool'[i].isPinned = keyPool[i].isPinned
                /\ Health(keyPool'[i]) = <<"active", NoTime, NoError, NoTime>>
                /\ ~Skipped(keyPool'[i], now')
          /\ getAvailableKeys(getOrderedKeys(keyPool'), now') = getOrderedKeys(keyPool')]_vars

\* a health check has marked both keys, and the forced reset after it has cleared the marks
C31_Witness ==
    /\ hcFromUI /\ hcPending = {} /\ left.edits = 0
    /\ Len(keyPool) = 2
    /\ \A i \in 1..Len(keyPool) : Health(keyPool[i]) = <<"active", NoTime, NoError, NoTime>>
    /\ \E i \in 1..Len(keyPool) : keyPool[i].isPinned

\* ------------------------------------------------------------ C32
\* C32: a dispatch ends with a result, an AllKeysFailedError or a ConfigError, and when a
\* request of it resolves the outcome is written to the key of that request in the live
\* pool, also when initializeApiKeys has replaced the pool while the request was in flight.
C32_DispatchEndsAndRecordsInLivePool ==
    [][DispatchResponseStep =>
          /\ dpc' = "done" => dResult' \in {"result", "AllKeysFailedError", "ConfigError"}
          /\ dOrder[dIdx] \in Values(keyPool) =>
                \E r \in ServiceResponses : keyPool' = WriteKey(keyPool, dOrder[dIdx], r, now)]_vars

\* ------------------------------------------------------------ C33
\* the call j was issued before the last reset or for an earlier upload than the last one
Stale(j) == analysisCursor.status = "idle" \/ calls[j].run # uploads

\* C33: when an analysis or synthesis call returns that was issued before a full reset or
\* before the current run was started, the cursor index, the story summary and the image
\* descriptions stay what they were: a run started after the reset analyses its image 0
\* first, with the empty summary.
C33_StaleCompletionChangesNothing ==
    [][\A j \in 1..Len(calls) :
          (ReturnsNow(j) /\ Stale(j)) =>
              /\ analysisCursor'.currentIndex = analysisCursor.currentIndex
              /\ analysisCursor'.imagesToAnalyze = analysisCursor.imagesToAnalyze
              /\ evolvingStorySummary' = evolvingStorySummary
              /\ allUploadedImages' = allUploadedImages
              /\ appState' = appState]_vars

\* ------------------------------------------------------------ C34
\* the checkApiKey of the key check c resolves and handleCheckKey hands its list on
CheckCompletes(c) == c \in checks /\ checks' = checks \ {c}

\* C34: the list a completing key check hands to onKeysChange is the current list with the
\* result of the check in the checked key: it holds the key handleAddKey has just added and
\* every other edit made since the check was started.
C34_CheckKeepsCurrentList ==
    [][\A c \in checks :
          CheckCompletes(c) =>
              /\ Len(settingsKeys') = Len(settingsKeys)
              /\ \A i \in 1..Len(settingsKeys) :
                    /\ settingsKeys'[i].value = settingsKeys[i].value
                    /\ settingsKeys'[i].isPinned = settingsKeys[i].isPinned
                    /\ settingsKeys[i].value # c.key => settingsKeys'[i] = settingsKeys[i]]_vars

\* ------------------------------------------------------------ C35
\* C35: when a key check completes for a key of the pool and its list has gone through
\* initializeApiKeys, the pool holds the key with the status the check has put into the
\* list; with status active the next dispatch does not skip the key.
C35_CheckResultReachesThePool ==
    [][\A c \in checks :
          (CheckCompletes(c) /\ c.key \in Values(keyPool) /\ c.key \in Values(settingsKeys')) =>
              /\ c.key \in Values(keyPool')
              /\ KeyOf(keyPool', c.key).status = KeyOf(settingsKeys', c.key).status
              /\ KeyOf(settingsKeys', c.key).status = "active"
                    => ~Skipped(KeyOf(keyPool', c.key), now')]_vars

\* ------------------------------------------------------------ C36
\* C36: every key of the pool that has a resetTime is exhausted or rate_limited; a key that
\* is active, invalid, config_error or unknown has none.
C36_ResetTimeOnlyWhileCooling ==
    \A i \in 1..Len(keyPool) :
        keyPool[i].resetTime # NoTime => keyPool[i].status \in {"exhausted", "rate_limited"}

\* ------------------------------------------------------------ C37
\* C37: the key performSelfCheck probes is the key a dispatch called at that moment would
\* attempt first: a key the dispatch does not skip, the pinned one before the others.
C37_SelfCheckProbesTheDispatchKey ==
    [][(scPc # "probing" /\ scPc' = "probing") =>
          LET allKeysInOrder == getOrderedKeys(keyPool')
              first == NextAttempt(allKeysInOrder, 1, now')
          IN /\ first # 0
             /\ allKeysInOrder[first].value = scKey']_vars

\* ------------------------------------------------------------ C38
\* C38: the currentIndex of the analysis progress never exceeds its total, and while the
\* call for image k is in flight it is k + 1, whatever has failed and been retried.
C38_ProgressWithinTotal ==
    /\ analysisProgress.currentIndex <= analysisProgress.total
    /\ \A j \in InFlight :
          (calls[j].kind = "analysis" /\ ~Stale(j)) => analysisProgress.currentIndex = calls[j].index + 1

\* ------------------------------------------------------------ C39
\* the key lists the application has at hand to pass to initializeApiKeys: the settings,
\* the copy of the pool, the failedKeys of an error and the lists of the key checks
ListsAtHand ==
    {settingsKeys, getKeyPoolState(keyPool), dFailedKeys}
    \cup {c.keys : c \in checks}
    \cup {CheckedKeys(c.keys, c.key, "active", now) : c \in checks}

\* C39: initializeApiKeys(getKeyPoolState()) leaves value, order, status, resetTime,
\* lastError, lastChecked and pin of every key as they are, and a second call of
\* initializeApiKeys with the same list changes nothing the first call has left.
C39_InitializeIsIdempotent ==
    /\ initializeApiKeys(keyPool, getKeyPoolState(keyPool)) = keyPool
    /\ \A keys \in ListsAtHand :
          LET once == initializeApiKeys(keyPool, keys)
          IN initializeApiKeys(once, keys) = once

\* the pool holds marks and a pin order the settings do not have, so that the copy of the
\* pool and the merge of the settings are different lists
C39_Witness ==
    /\ Len(keyPool) = 2
    /\ keyPool[2].isPinned
    /\ keyPool[1].resetTime # NoTime
    /\ keyPool[1].lastError # NoError
    /\ settingsKeys[1].status # keyPool[1].status
    /\ initializeApiKeys(keyPool, settingsKeys) # settingsKeys
    /\ left.edits = 0

====
